---------------------------- MODULE Spec2Model ----------------------------
(***************************************************************************)
(* A model of the turboflakes backend: the Indexer (history task H and the *)
(* era-payout subscriber S of sync/sync.rs) writing a Redis cache, and the *)
(* leaderboard engine of handlers/validator.rs reading and writing it.     *)
(*                                                                         *)
(* Every cache command (HSET, ZADD, HINCRBY, SET, ...) is one step of the  *)
(* task that issues it: the .await of a command is a suspension point and  *)
(* the tasks run on a multi-threaded executor.  Reads of keys that only    *)
(* the reading task's own component writes are folded into the step of the *)
(* write that follows them.                                                *)
(*                                                                         *)
(* Numbers.  u32 / u128 values are integers (the bounds keep them far from *)
(* the type's width, and below 2^53 where they become sorted-set scores).  *)
(* f32 / f64 values are exact rationals <<n, d>> in lowest terms, d > 0,   *)
(* with NaN == <<0, 0>> for the result of 0.0 / 0.0; the rounding of the   *)
(* binary formats is not modelled.  Redis strings hold the value that      *)
(* to_string() / parse() round-trips; a missing field reads as the default *)
(* the From<...Cache> conversions give it.                                 *)
(***************************************************************************)
EXTENDS Integers, Sequences, FiniteSets, TLC

VARIABLES
    chain,      \* the node: storage read by the Indexer
    cache,      \* the Redis keyspace
    hPc,        \* task H: position in spawn_and_restart_history_on_error
    sPc,        \* task S: position in spawn_and_restart_era_payout_subscription_on_error
    sSub,       \* task S: events held by its finalized-events subscription
    sEvent,     \* task S: the event being handled, [id, era], or NoEvent
    sTodo,      \* task S: commands of the resync still to issue
    sReg,       \* task S: locals of the pass in progress
    rq,         \* request tasks: locals of the HTTP request whose task is running
    log,        \* history variables: what happened to each event, failures
    rk          \* request tasks: locals of the HTTP request whose task awaits its turn

vars == <<chain, cache, hPc, sPc, sSub, sEvent, sTodo, sReg, rq, log, rk>>

---------------------------------------------------------------------------
(* Bounds of the model *)

NStash == 2
NNom == 2
MaxEra == 4
MaxQueue == 2
MaxFail == 1
MaxEvents == 2
MaxReq == 2
MaxHops == 3

Stashes == 1..NStash
Nominators == (NStash + 1)..(NStash + NNom)
Accounts == 1..(NStash + NNom)
EraSet == 0..MaxEra

---------------------------------------------------------------------------
(* f32 / f64 arithmetic on exact rationals *)

RECURSIVE GCD(_, _)
GCD(a, b) == IF b = 0 THEN a ELSE GCD(b, a % b)

Abs(n) == IF n < 0 THEN -n ELSE n

NaN == <<0, 0>>

IsNaN(x) == x[2] = 0

Rat(n, d) ==
    IF d = 0 THEN NaN
    ELSE LET g == GCD(Abs(n), Abs(d))
             s == IF d < 0 THEN -1 ELSE 1
         IN  <<s * (n \div g), s * (d \div g)>>

F(n) == <<n, 1>>

RAdd(x, y) == IF IsNaN(x) \/ IsNaN(y) THEN NaN ELSE Rat(x[1] * y[2] + y[1] * x[2], x[2] * y[2])
RSub(x, y) == IF IsNaN(x) \/ IsNaN(y) THEN NaN ELSE Rat(x[1] * y[2] - y[1] * x[2], x[2] * y[2])
RMul(x, y) == IF IsNaN(x) \/ IsNaN(y) THEN NaN ELSE Rat(x[1] * y[1], x[2] * y[2])
RDiv(x, y) == IF IsNaN(x) \/ IsNaN(y) THEN NaN ELSE Rat(x[1] * y[2], x[2] * y[1])

\* IEEE comparisons: every comparison with NaN is false, NaN != NaN
RLt(x, y) == ~IsNaN(x) /\ ~IsNaN(y) /\ x[1] * y[2] < y[1] * x[2]
RGt(x, y) == RLt(y, x)
REq(x, y) == ~IsNaN(x) /\ ~IsNaN(y) /\ x = y
RNe(x, y) == ~REq(x, y)
RLe(x, y) == RLt(x, y) \/ REq(x, y)

\* `as u128` of a non-negative f64: truncation, NaN to 0
TruncU(x) == IF IsNaN(x) \/ x[1] < 0 THEN 0 ELSE x[1] \div x[2]

RECURSIVE SumSeq(_)
SumSeq(s) == IF s = <<>> THEN 0 ELSE Head(s) + SumSeq(Tail(s))

RECURSIVE RSumSeq(_)
RSumSeq(s) == IF s = <<>> THEN F(0) ELSE RAdd(Head(s), RSumSeq(Tail(s)))

\* iter().fold(0.0, |acc, x| acc + x)
RECURSIVE RFold(_, _)
RFold(acc, s) == IF s = <<>> THEN acc ELSE RFold(RAdd(acc, Head(s)), Tail(s))

\* the elements of a finite set of integers in ascending order
RECURSIVE SortedSeq(_)
SortedSeq(S) ==
    IF S = {} THEN <<>>
    ELSE LET m == CHOOSE x \in S : \A y \in S : x <= y
         IN  <<m>> \o SortedSeq(S \ {m})

RECURSIVE Concat(_)
Concat(ss) == IF ss = <<>> THEN <<>> ELSE Head(ss) \o Concat(Tail(ss))

EmptyFn == [k \in {} |-> 0]

Get(h, f, default) == IF f \in DOMAIN h THEN h[f] ELSE default

---------------------------------------------------------------------------
(* sync/stats.rs *)

\* let sum: u32 = list.iter().sum(): the sum modulo 2^32, as the build
\* without overflow checks computes it, in halves of 16 bits, and whether
\* the additions have carried out of the 32 bits
sum_u32(list) ==
    CHOOSE s \in {[hi |-> (h + (l \div 65536)) % 65536,
                   lo |-> l % 65536,
                   overflow |-> h + (l \div 65536) >= 65536] :
                      l \in {SumSeq([i \in 1..Len(list) |-> list[i] % 65536])},
                      h \in {SumSeq([i \in 1..Len(list) |-> list[i] \div 65536])}} : TRUE

u32_value(s) == s.hi * 65536 + s.lo

\* the argument is evaluated once, at the call, and the sum once
mean(list) ==
    CHOOSE m \in UNION {{IF Len(l) = 0 THEN F(0) ELSE Rat(u32_value(s), Len(l)) :
                            s \in {sum_u32(l)}} : l \in {list}} : TRUE

RECURSIVE InsertSorted(_, _)
InsertSorted(x, s) ==
    IF s = <<>> THEN <<x>>
    ELSE IF x <= Head(s) THEN <<x>> \o s
    ELSE <<Head(s)>> \o InsertSorted(x, Tail(s))

RECURSIVE SortU32(_)
SortU32(s) == IF s = <<>> THEN <<>> ELSE InsertSorted(Head(s), SortU32(Tail(s)))

median(list) == IF Len(list) = 0 THEN 0 ELSE SortU32(list)[(Len(list) \div 2) + 1]

\* a minimum that takes the last element of the list as it is given
min_unsorted(list) == IF Len(list) = 0 THEN 0 ELSE list[Len(list)]

min(list) == IF Len(list) = 0 THEN 0 ELSE SortU32(list)[1]

max(list) == IF Len(list) = 0 THEN 0 ELSE SortU32(list)[Len(list)]

---------------------------------------------------------------------------
(* The node.  chain is a record:                                           *)
(*   activeEra     Staking::ActiveEra.index                                *)
(*   historyDepth  Staking::HistoryDepth                                   *)
(*   validators    the stashes of Staking::Validators (validators_iter)    *)
(*   blocked       the stashes whose ValidatorPrefs.blocked is true        *)
(*   commission    stash -> ValidatorPrefs.commission (parts per billion)  *)
(*   bonded        the accounts with a Staking::Bonded controller          *)
(*   ledger        account -> active stake of its controller's ledger      *)
(*   staked        the stashes whose Payee is RewardDestination::Staked    *)
(*   targets       nominator -> its Nominations.targets                    *)
(*   session       Session::Validators                                     *)
(*   judgements    stash -> Reasonable | KnownGood judgements of identity  *)
(*   subs          stash -> number of sub accounts of its identity         *)
(*   identity      the stashes with an IdentityOf entry                    *)
(*   super         account -> <<parent, sub name>>, its SuperOf entry      *)
(*   points        stash -> reward points the stash earns in each era      *)
(* An account's controller is named by the account itself.  Everything but *)
(* activeEra is fixed in one behaviour.                                    *)

None == 0 - 1

NoEvent == [id |-> 0, era |-> None]

COMMISSION_PLANCK == 1000000000

NOMINATORS_OVERSUBSCRIBED_THRESHOLD == 256

\* api.storage().staking().bonded(stash): Option<controller>
bonded(ch, a) == IF a \in ch.bonded THEN a ELSE None

\* Sync::get_controller_stake: ledger(controller).active, or 0
get_controller_stake(ch, controller) == IF controller \in DOMAIN ch.ledger THEN ch.ledger[controller] ELSE 0

\* api.storage().staking().eras_reward_points(era): the individual points of
\* an era that has ended, as (stash, points) pairs in storage order
eras_individual(ch, e) ==
    IF e < ch.activeEra
    THEN [i \in 1..Len(SortedSeq(ch.session)) |->
            <<SortedSeq(ch.session)[i], ch.points[SortedSeq(ch.session)[i]] + e>>]
    ELSE <<>>

eras_points_list(ch, e) == [i \in 1..Len(eras_individual(ch, e)) |-> eras_individual(ch, e)[i][2]]

eras_points_total(ch, e) == SumSeq(eras_points_list(ch, e))

\* api.storage().staking().eras_validator_reward(era): Option<u128>
eras_validator_reward_of(ch, e) == IF e < ch.activeEra THEN 1000 + e ELSE None

\* the nominators of a stash that are exposed to it
exposed(ch, s) == {n \in DOMAIN ch.targets : s \in ch.targets[n] /\ n \in ch.bonded}

RECURSIVE SumStake(_, _)
SumStake(ch, S) ==
    IF S = {} THEN 0
    ELSE LET a == CHOOSE x \in S : TRUE
         IN  get_controller_stake(ch, a) + SumStake(ch, S \ {a})

\* api.storage().staking().eras_total_stake(era)
eras_total_stake_of(ch, e) == SumStake(ch, ch.bonded)

\* the name given for a stash with no identity, the display name of the
\* identity of a stash, and format!("{}/{}", parent, child)
NoName == <<>>
DisplayName(s) == <<s>>
SubName(parent, child) == <<parent, child>>

\* Sync::get_identity, the arm Some(identity) of identity_of(stash)
identity_data(ch, s, sub_account_name) ==
    [name |-> IF sub_account_name = None THEN DisplayName(s) ELSE SubName(s, sub_account_name),
     judgements |-> ch.judgements[s], sub_accounts |-> ch.subs[s]]

\* Sync::get_identity, the arm None with no super_of(stash)
identity_none == [name |-> NoName, judgements |-> 0, sub_accounts |-> 0]

\* Sync::get_identity(stash, sub_account_name): identity_of(stash), else
\* get_identity(parent, Some(sub name)) for super_of(stash) = (parent, sub name)
RECURSIVE get_identity_of(_, _, _)
get_identity_of(ch, s, sub_account_name) ==
    IF s \in ch.identity THEN identity_data(ch, s, sub_account_name)
    ELSE IF s \in DOMAIN ch.super
    THEN get_identity_of(ch, ch.super[s][1], ch.super[s][2])
    ELSE identity_none

\* Sync::validators: self.get_identity(&stash, None)
get_identity(ch, s) == get_identity_of(ch, s, None)

---------------------------------------------------------------------------
(* The cache.  cache is a record of the keyspaces of sync::Key; a key      *)
(* exists exactly when it is in the DOMAIN of its keyspace (Redis holds no *)
(* empty hash or sorted set).                                              *)
(*   info        Key::Info, a hash                                         *)
(*   network     Key::Network, a hash                                      *)
(*   era_active  Key::ActiveEra, a string, None when unset                 *)
(*   era         Key::Era(e) -> hash                                       *)
(*   vae         Key::ValidatorAtEra(e, stash) -> hash, keyed <<e, stash>> *)
(*   aebv        Key::ActiveErasByValidator(stash) -> sorted set, held as  *)
(*               the set of its members <<era, points>> ("era:points"),    *)
(*               each scored by its era                                    *)
(*   val         Key::Validator(stash) -> hash                             *)
(*   board       Key::BoardAtEra(e, name) -> sorted set (member -> score), *)
(*               keyed <<e, name>>, for the boards the Indexer names       *)
(*   wboard      the same for a leaderboard name, keyed <<e, w, i>>        *)
(*   wscores     Key::BoardAtEra(e, "{name}:scores") -> hash               *)
(*   wlimits     Key::BoardAtEra(e, "{name}:limits") -> hash               *)
(*   stats       Key::Stats, a hash of counters keyed <<e, w, i>>          *)

BOARD_TOTAL_POINTS_ERAS == "total:points:era"
BOARD_MAX_POINTS_ERAS == "max:points:era"
BOARD_MIN_POINTS_ERAS == "min:points:era"
BOARD_AVG_POINTS_ERAS == "avg:points:era"
BOARD_ACTIVE_VALIDATORS == "active:val"
BOARD_ALL_VALIDATORS == "all:val"
BOARD_POINTS_VALIDATORS == "points:val"
BOARD_OWN_STAKE_VALIDATORS == "own:stake:val"
BOARD_TOTAL_STAKE_VALIDATORS == "total:stake:val"
BOARD_JUDGEMENTS_VALIDATORS == "judgements:val"
BOARD_SUB_ACCOUNTS_VALIDATORS == "sub:accounts:val"

EmptyCache ==
    [info |-> EmptyFn, network |-> EmptyFn, era_active |-> None, era |-> EmptyFn,
     vae |-> EmptyFn, aebv |-> EmptyFn, val |-> EmptyFn, board |-> EmptyFn,
     wboard |-> EmptyFn, wscores |-> EmptyFn, wlimits |-> EmptyFn, stats |-> EmptyFn]

\* HSET key field value [field value ...]
HSET(space, key, data) == (key :> (data @@ Get(space, key, EmptyFn))) @@ space

\* ZADD key score member
ZADD(space, key, score, member) == (key :> ((member :> score) @@ Get(space, key, EmptyFn))) @@ space

\* HINCRBY key field 1
HINCRBY(space, key, field) ==
    (key :> ((field :> (Get(Get(space, key, EmptyFn), field, 0) + 1)) @@ Get(space, key, EmptyFn))) @@ space

\* EXISTS key
EXISTS(space, key) == key \in DOMAIN space

\* Sync::status
status_data(st) ==
    IF st = "Started"
    THEN ("syncing" :> "true") @@ ("syncing_started_at" :> "now")
    ELSE ("syncing" :> "false") @@ ("syncing_finished_at" :> "now")

status(c, st) == [c EXCEPT !.info = status_data(st) @@ c.info]

\* Sync::network
network(c) ==
    [c EXCEPT !.network = [name |-> "chain", token_symbol |-> "T", token_decimals |-> 12,
                           ss58_format |-> 2, substrate_node_url |-> "ws"]]

\* Sync::active_era: SET era:active
active_era(c, ch) == [c EXCEPT !.era_active = ch.activeEra]

\* Sync::is_syncing / handlers::validator::is_syncing:
\* HGET info syncing, parse::<bool>().unwrap_or_default(), None => false
is_syncing(c) == Get(c.info, "syncing", "false") = "true"

\* Sync::eras_validator_reward
eras_validator_reward(c, ch, e) ==
    [c EXCEPT !.era = HSET(c.era, e,
        "total_reward" :> (IF eras_validator_reward_of(ch, e) = None THEN 0
                           ELSE eras_validator_reward_of(ch, e)))]

\* Sync::eras_total_stake
eras_total_stake(c, ch, e) ==
    [c EXCEPT !.era = HSET(c.era, e, "total_stake" :> eras_total_stake_of(ch, e))]

\* Sync::eras_reward_points, the validator_data of one (stash, points):
\* set_eras_validator_prefs, set_eras_validator_stakers, set_eras_validator_stakers_clipped
validator_at_era_data(ch, s, points) ==
    [active |-> TRUE, reward_points |-> points,
     commission |-> ch.commission[s], blocked |-> s \in ch.blocked,
     total_stake |-> get_controller_stake(ch, s) + SumStake(ch, exposed(ch, s)),
     own_stake |-> get_controller_stake(ch, s),
     others_stake |-> SumStake(ch, exposed(ch, s)),
     stakers |-> Cardinality(exposed(ch, s)),
     others_stake_clipped |-> SumStake(ch, exposed(ch, s)),
     stakers_clipped |-> Cardinality(exposed(ch, s))]

\* Sync::eras_reward_points: HSET {era}:era:{stash}:val
erp_hset(c, ch, e, i) ==
    [c EXCEPT !.vae = HSET(c.vae, <<e, eras_individual(ch, e)[i][1]>>,
        validator_at_era_data(ch, eras_individual(ch, e)[i][1], eras_individual(ch, e)[i][2]))]

\* an era sync that does not record the era among the stash's active eras
erp_zadd_active_skipped(c, ch, e, i) == c

\* Sync::eras_reward_points: ZADD {stash}:val:eras:active era "{era}:{points}"
erp_zadd_active(c, ch, e, i) ==
    [c EXCEPT !.aebv = (eras_individual(ch, e)[i][1] :>
        (Get(c.aebv, eras_individual(ch, e)[i][1], {}) \cup {<<e, eras_individual(ch, e)[i][2]>>})) @@ c.aebv]

\* Sync::eras_reward_points: ZADD {era}:era:points:val:board points stash
erp_zadd_points(c, ch, e, i) ==
    [c EXCEPT !.board = ZADD(c.board, <<e, BOARD_POINTS_VALIDATORS>>,
        eras_individual(ch, e)[i][2], eras_individual(ch, e)[i][1])]

\* Sync::eras_reward_points: the era summary
era_data(ch, e) ==
    [total_reward_points |-> eras_points_total(ch, e),
     min_reward_points |-> min(eras_points_list(ch, e)),
     max_reward_points |-> max(eras_points_list(ch, e)),
     avg_reward_points |-> mean(eras_points_list(ch, e)),
     median_reward_points |-> median(eras_points_list(ch, e))]

erp_era_hset(c, ch, e) == [c EXCEPT !.era = HSET(c.era, e, era_data(ch, e))]

\* Sync::eras_reward_points: the statistical boards of eras
erp_zadd_total(c, ch, e) ==
    [c EXCEPT !.board = ZADD(c.board, <<0, BOARD_TOTAL_POINTS_ERAS>>, eras_points_total(ch, e), e)]

erp_zadd_max(c, ch, e) ==
    [c EXCEPT !.board = ZADD(c.board, <<0, BOARD_MAX_POINTS_ERAS>>, max(eras_points_list(ch, e)), e)]

erp_zadd_min(c, ch, e) ==
    [c EXCEPT !.board = ZADD(c.board, <<0, BOARD_MIN_POINTS_ERAS>>, min(eras_points_list(ch, e)), e)]

\* Sync::eras_history: HSET {era}:era synced_at
synced_at(c, e) == [c EXCEPT !.era = HSET(c.era, e, "synced_at" :> "now")]

---------------------------------------------------------------------------
(* Sync::validators, Sync::active_validators, Sync::nominators *)

\* a - b in u32 as its halves of 16 bits, wrapping as the build without
\* overflow checks does, and whether the subtraction has borrowed out of
\* the 32 bits
u32_sub(a, b) ==
    LET lo == (a % 65536) - (b % 65536)
        hi == (a \div 65536) - (b \div 65536) - (IF lo < 0 THEN 1 ELSE 0)
    IN  [hi |-> (hi + 65536) % 65536, lo |-> (lo + 65536) % 65536, overflow |-> hi < 0]

\* active_era_index - history_depth of Sync::validators and
\* Sync::eras_history_depth
window_min(active_era_index, history_depth) == u32_value(u32_sub(active_era_index, history_depth))

\* Sync::calculate_inclusion_rate: ZCOUNT key min (max, divided as f32
calculate_inclusion_rate(c, stash, era_index_min, era_index_max) ==
    Rat(Cardinality({m \in Get(c.aebv, stash, {}) : era_index_min <= m[1] /\ m[1] < era_index_max}),
        era_index_max - era_index_min)

\* Sync::calculate_avg_reward_points: ZRANGE key min (max BYSCORE, the mean
\* of the points after the ':' of each member
calculate_avg_reward_points(c, stash, era_index_min, era_index_max) ==
    LET t == {m \in Get(c.aebv, stash, {}) : era_index_min <= m[1] /\ m[1] < era_index_max}
        eras == SortedSeq({m[1] : m \in t})
        v == Concat([k \in 1..Len(eras) |-> SortedSeq({m[2] : m \in {x \in t : x[1] = eras[k]}})])
    IN  mean(v)

\* Sync::validators: the validator_data written for a stash.  The
\* preferences are those of the validators_iter taken when the pass began,
\* controller and own_stake are the locals bound when the iteration read
\* them; payee, the two rates and the identity are read after the ZADD of
\* the own stake, before the HSET
validator_data(c, ch, reg, stash) ==
    [active |-> FALSE,
     commission |-> reg.prefs.commission[stash],
     blocked |-> stash \in reg.prefs.blocked,
     controller |-> reg.controller,
     own_stake |-> reg.own_stake,
     reward_staked |-> stash \in ch.staked,
     inclusion_rate |-> calculate_inclusion_rate(c, stash,
         window_min(reg.active_era_index, reg.history_depth), reg.active_era_index),
     avg_reward_points |-> calculate_avg_reward_points(c, stash,
         window_min(reg.active_era_index, reg.history_depth), reg.active_era_index),
     name |-> get_identity(ch, stash).name,
     judgements |-> get_identity(ch, stash).judgements,
     sub_accounts |-> get_identity(ch, stash).sub_accounts,
     nominators |-> 0,
     nominators_stake |-> 0]

\* Sync::validators: ZADD 0:era:own:stake:val:board own_stake stash
val_zadd_own_stake(c, reg, stash) ==
    [c EXCEPT !.board = ZADD(c.board, <<0, BOARD_OWN_STAKE_VALIDATORS>>, reg.own_stake, stash)]

\* Sync::validators: HSET {stash}:val validator_data
val_hset(c, ch, reg, stash) ==
    [c EXCEPT !.val = HSET(c.val, stash, validator_data(c, ch, reg, stash))]

\* Sync::validators: ZADD {active_era}:era:all:val:board 0 stash
val_zadd_all(c, reg, stash) ==
    [c EXCEPT !.board = ZADD(c.board, <<reg.active_era_index, BOARD_ALL_VALIDATORS>>, 0, stash)]

\* Sync::validators: ZADD 0:era:judgements:val:board judgements stash
val_zadd_judgements(c, reg, stash) ==
    [c EXCEPT !.board = ZADD(c.board, <<0, BOARD_JUDGEMENTS_VALIDATORS>>,
        reg.validator_data.judgements, stash)]

\* Sync::validators: ZADD 0:era:sub:accounts:val:board sub_accounts stash
val_zadd_sub_accounts(c, reg, stash) ==
    [c EXCEPT !.board = ZADD(c.board, <<0, BOARD_SUB_ACCOUNTS_VALIDATORS>>,
        reg.validator_data.sub_accounts, stash)]

\* Sync::validators: HSET info validators i
val_info(c, i) == [c EXCEPT !.info = ("validators" :> i) @@ c.info]

\* Sync::active_validators: HSET {stash}:val active true
act_hset(c, stash) == [c EXCEPT !.val = HSET(c.val, stash, "active" :> TRUE)]

\* Sync::active_validators: ZADD {active_era}:era:active:val:board 0 stash
act_zadd(c, reg, stash) ==
    [c EXCEPT !.board = ZADD(c.board, <<reg.active_era_index, BOARD_ACTIVE_VALIDATORS>>, 0, stash)]

\* Sync::nominators: HINCRBY {target}:val nominators 1
nom_hincrby(c, target) == [c EXCEPT !.val = HINCRBY(c.val, target, "nominators")]

\* a nominators pass that stores the stake it read, without the nominator's
nom_hget_stake_unchanged(c, reg, target) ==
    Get(Get(c.val, target, EmptyFn), "nominators_stake", 0)

\* Sync::nominators: HGET {target}:val nominators_stake, then += nominator_stake
nom_hget_stake(c, reg, target) ==
    Get(Get(c.val, target, EmptyFn), "nominators_stake", 0) + reg.nominator_stake

\* Sync::nominators: HSET {target}:val nominators_stake
nom_hset_stake(c, reg, target) ==
    [c EXCEPT !.val = HSET(c.val, target, "nominators_stake" :> reg.nominators_stake)]

\* Sync::nominators: HGET {target}:val own_stake, then += nominators_stake
nom_hget_own(c, reg, target) ==
    Get(Get(c.val, target, EmptyFn), "own_stake", 0) + reg.nominators_stake

\* Sync::nominators: ZADD 0:era:total:stake:val:board total_stake target
nom_zadd(c, reg, target) ==
    [c EXCEPT !.board = ZADD(c.board, <<0, BOARD_TOTAL_STAKE_VALIDATORS>>, reg.total_stake, target)]

\* Sync::nominators: HSET info nominators i
nom_info(c, i) == [c EXCEPT !.info = ("nominators" :> i) @@ c.info]

---------------------------------------------------------------------------
(* The commands of one resync, in the order the code issues them.  A       *)
(* command is [fn, op, a, b]: the function of Sync it belongs to, the      *)
(* command of that function, and its arguments.  A command that reads a    *)
(* collection of the node (an iterator, the session, the points of an era) *)
(* is followed, once it has run, by the commands of the items it read.     *)

Cmd(fn, op, a, b) == [fn |-> fn, op |-> op, a |-> a, b |-> b]

\* an era sync that stamps the era before it fetches
eras_history_cmds_stamp_first(e) ==
    <<Cmd("eras_history", "synced_at", e, 0),
      Cmd("eras_history", "eras_validator_reward", e, 0),
      Cmd("eras_history", "eras_total_stake", e, 0),
      Cmd("eras_history", "eras_reward_points", e, 0)>>

\* Sync::eras_history(era_index, Some(true))
eras_history_cmds(e) ==
    <<Cmd("eras_history", "eras_validator_reward", e, 0),
      Cmd("eras_history", "eras_total_stake", e, 0),
      Cmd("eras_history", "eras_reward_points", e, 0),
      Cmd("eras_history", "synced_at", e, 0)>>

\* Sync::eras_reward_points after the fetch: the commands of every
\* individual, then the summary of the era and its boards
eras_reward_points_cmds(ch, e) ==
    Concat([i \in 1..Len(eras_individual(ch, e)) |->
        <<Cmd("eras_history", "erp_hset", e, i),
          Cmd("eras_history", "erp_zadd_active", e, i),
          Cmd("eras_history", "erp_zadd_points", e, i)>>])
    \o <<Cmd("eras_history", "erp_era_hset", e, 0),
         Cmd("eras_history", "erp_zadd_total", e, 0),
         Cmd("eras_history", "erp_zadd_max", e, 0),
         Cmd("eras_history", "erp_zadd_min", e, 0)>>

\* Sync::validators after validators_iter: the iteration of every stash of
\* the iterator, then the count
validators_cmds(ch) ==
    Concat([i \in 1..Len(SortedSeq(ch.validators)) |->
        <<Cmd("validators", "val_bonded", SortedSeq(ch.validators)[i], 0),
          Cmd("validators", "val_own_stake", SortedSeq(ch.validators)[i], 0),
          Cmd("validators", "val_zadd_own_stake", SortedSeq(ch.validators)[i], 0),
          Cmd("validators", "val_hset", SortedSeq(ch.validators)[i], 0),
          Cmd("validators", "val_zadd_all", SortedSeq(ch.validators)[i], 0),
          Cmd("validators", "val_zadd_judgements", SortedSeq(ch.validators)[i], 0),
          Cmd("validators", "val_zadd_sub_accounts", SortedSeq(ch.validators)[i], 0)>>])
    \o <<Cmd("validators", "val_info", 0, 0)>>

\* Sync::active_validators after session().validators
active_validators_cmds(ch) ==
    Concat([i \in 1..Len(SortedSeq(ch.session)) |->
        <<Cmd("active_validators", "act_hset", SortedSeq(ch.session)[i], 0),
          Cmd("active_validators", "act_zadd", SortedSeq(ch.session)[i], 0)>>])

\* Sync::nominators: the six commands of one (nominator, target)
nominator_target_cmds(n, t) ==
    <<Cmd("nominators", "nom_exists", n, t),
      Cmd("nominators", "nom_hincrby", n, t),
      Cmd("nominators", "nom_hget_stake", n, t),
      Cmd("nominators", "nom_hset_stake", n, t),
      Cmd("nominators", "nom_hget_own", n, t),
      Cmd("nominators", "nom_zadd", n, t)>>

\* Sync::nominators after nominators_iter: the iteration of every nominator
\* of the iterator over the targets the iterator holds for it, then the
\* count; nom_bonded carries the number of these targets
nominators_cmds(ch) ==
    Concat([i \in 1..Len(SortedSeq(DOMAIN ch.targets)) |->
        <<Cmd("nominators", "nom_bonded", SortedSeq(DOMAIN ch.targets)[i],
              Cardinality(ch.targets[SortedSeq(DOMAIN ch.targets)[i]])),
          Cmd("nominators", "nom_stake", SortedSeq(DOMAIN ch.targets)[i], 0)>>
        \o Concat([k \in 1..Len(SortedSeq(ch.targets[SortedSeq(DOMAIN ch.targets)[i]])) |->
                nominator_target_cmds(SortedSeq(DOMAIN ch.targets)[i],
                    SortedSeq(ch.targets[SortedSeq(DOMAIN ch.targets)[i]])[k])])])
    \o <<Cmd("nominators", "nom_info", Cardinality(DOMAIN ch.targets), 0)>>

\* a resync that runs the nominators pass before the validators pass
resync_cmds_nominators_first(e) ==
    <<Cmd("status", "Started", 0, 0), Cmd("active_era", "active_era", 0, 0)>>
    \o eras_history_cmds(e)
    \o <<Cmd("nominators", "nom_begin", 0, 0),
         Cmd("active_validators", "act_begin", 0, 0),
         Cmd("validators", "val_begin", 0, 0),
         Cmd("status", "Finished", 0, 0)>>

\* Sync::subscribe_era_payout_events: the body run for an event that is not skipped
resync_cmds(e) ==
    <<Cmd("status", "Started", 0, 0), Cmd("active_era", "active_era", 0, 0)>>
    \o eras_history_cmds(e)
    \o <<Cmd("validators", "val_begin", 0, 0),
         Cmd("active_validators", "act_begin", 0, 0),
         Cmd("nominators", "nom_begin", 0, 0),
         Cmd("status", "Finished", 0, 0)>>

\* the cache after a command
exec_cache(c, ch, reg, cmd) ==
    CASE cmd.op = "Started" -> status(c, "Started")
      [] cmd.op = "Finished" -> status(c, "Finished")
      [] cmd.op = "active_era" -> active_era(c, ch)
      [] cmd.op = "eras_validator_reward" -> eras_validator_reward(c, ch, cmd.a)
      [] cmd.op = "eras_total_stake" -> eras_total_stake(c, ch, cmd.a)
      [] cmd.op = "erp_hset" -> erp_hset(c, ch, cmd.a, cmd.b)
      [] cmd.op = "erp_zadd_active" -> erp_zadd_active(c, ch, cmd.a, cmd.b)
      [] cmd.op = "erp_zadd_points" -> erp_zadd_points(c, ch, cmd.a, cmd.b)
      [] cmd.op = "erp_era_hset" -> erp_era_hset(c, ch, cmd.a)
      [] cmd.op = "erp_zadd_total" -> erp_zadd_total(c, ch, cmd.a)
      [] cmd.op = "erp_zadd_max" -> erp_zadd_max(c, ch, cmd.a)
      [] cmd.op = "erp_zadd_min" -> erp_zadd_min(c, ch, cmd.a)
      [] cmd.op = "synced_at" -> synced_at(c, cmd.a)
      [] cmd.op = "val_zadd_own_stake" -> val_zadd_own_stake(c, reg, cmd.a)
      [] cmd.op = "val_hset" -> val_hset(c, ch, reg, cmd.a)
      [] cmd.op = "val_zadd_all" -> val_zadd_all(c, reg, cmd.a)
      [] cmd.op = "val_zadd_judgements" -> val_zadd_judgements(c, reg, cmd.a)
      [] cmd.op = "val_zadd_sub_accounts" -> val_zadd_sub_accounts(c, reg, cmd.a)
      [] cmd.op = "val_info" -> val_info(c, reg.i)
      [] cmd.op = "act_hset" -> act_hset(c, cmd.a)
      [] cmd.op = "act_zadd" -> act_zadd(c, reg, cmd.a)
      [] cmd.op = "nom_hincrby" -> nom_hincrby(c, cmd.b)
      [] cmd.op = "nom_hset_stake" -> nom_hset_stake(c, reg, cmd.b)
      [] cmd.op = "nom_zadd" -> nom_zadd(c, reg, cmd.b)
      [] cmd.op = "nom_info" -> nom_info(c, cmd.a)
      [] OTHER -> c

\* the locals after a command: what it read from the node or the cache
exec_reg(c, ch, reg, cmd) ==
    CASE cmd.op = "val_begin" ->
            [reg EXCEPT !.history_depth = ch.historyDepth, !.active_era_index = ch.activeEra,
                        !.prefs = [commission |-> ch.commission, blocked |-> ch.blocked], !.i = 0]
      [] cmd.op = "act_begin" ->
            [reg EXCEPT !.active_era_index = ch.activeEra]
      [] cmd.op \in {"val_bonded", "nom_bonded"} ->
            [reg EXCEPT !.controller = bonded(ch, cmd.a)]
      [] cmd.op = "val_own_stake" ->
            [reg EXCEPT !.own_stake = get_controller_stake(ch, reg.controller)]
      [] cmd.op = "val_hset" ->
            [reg EXCEPT !.validator_data = validator_data(c, ch, reg, cmd.a)]
      [] cmd.op = "val_zadd_sub_accounts" ->
            [reg EXCEPT !.i = @ + 1]
      [] cmd.op = "nom_stake" ->
            [reg EXCEPT !.nominator_stake = get_controller_stake(ch, reg.controller)]
      [] cmd.op = "nom_hget_stake" ->
            [reg EXCEPT !.nominators_stake = nom_hget_stake(c, reg, cmd.b)]
      [] cmd.op = "nom_hget_own" ->
            [reg EXCEPT !.total_stake = nom_hget_own(c, reg, cmd.b)]
      [] OTHER -> reg

\* a nominators pass that goes on with a target that has no record
exec_todo_no_continue(c, ch, reg, todo) ==
    CASE Head(todo).op = "eras_reward_points" -> eras_reward_points_cmds(ch, Head(todo).a) \o Tail(todo)
      [] Head(todo).op = "val_begin" -> validators_cmds(ch) \o Tail(todo)
      [] Head(todo).op = "act_begin" -> active_validators_cmds(ch) \o Tail(todo)
      [] Head(todo).op = "nom_begin" -> nominators_cmds(ch) \o Tail(todo)
      [] Head(todo).op = "val_bonded" /\ bonded(ch, Head(todo).a) = None -> SubSeq(todo, 8, Len(todo))
      [] Head(todo).op = "val_own_stake" /\ get_controller_stake(ch, reg.controller) = 0 ->
            SubSeq(todo, 3, Len(todo))
      [] Head(todo).op = "nom_bonded" /\ bonded(ch, Head(todo).a) = None ->
            SubSeq(todo, 3 + 6 * Head(todo).b, Len(todo))
      [] Head(todo).op = "nom_hget_own" /\ nom_hget_own(c, reg, Head(todo).b) = 0 -> SubSeq(todo, 3, Len(todo))
      [] OTHER -> Tail(todo)

\* the commands left after a command: the commands of the items a fetch
\* returned; nothing of a stash without a controller; no ZADD when the own
\* stake or the total stake is zero; `continue` when the target does not exist
exec_todo(c, ch, reg, todo) ==
    CASE Head(todo).op = "eras_reward_points" -> eras_reward_points_cmds(ch, Head(todo).a) \o Tail(todo)
      [] Head(todo).op = "val_begin" -> validators_cmds(ch) \o Tail(todo)
      [] Head(todo).op = "act_begin" -> active_validators_cmds(ch) \o Tail(todo)
      [] Head(todo).op = "nom_begin" -> nominators_cmds(ch) \o Tail(todo)
      [] Head(todo).op = "val_bonded" /\ bonded(ch, Head(todo).a) = None -> SubSeq(todo, 8, Len(todo))
      [] Head(todo).op = "val_own_stake" /\ get_controller_stake(ch, reg.controller) = 0 ->
            SubSeq(todo, 3, Len(todo))
      [] Head(todo).op = "nom_bonded" /\ bonded(ch, Head(todo).a) = None ->
            SubSeq(todo, 3 + 6 * Head(todo).b, Len(todo))
      [] Head(todo).op = "nom_exists" /\ ~EXISTS(c.val, Head(todo).b) -> SubSeq(todo, 7, Len(todo))
      [] Head(todo).op = "nom_hget_own" /\ nom_hget_own(c, reg, Head(todo).b) = 0 -> SubSeq(todo, 3, Len(todo))
      [] OTHER -> Tail(todo)

\* the locals of a pass: of Sync::validators the two indexes, the
\* preferences of the iterator, the controller and own stake of the
\* iteration, its validator_data and the count i; of Sync::nominators the
\* controller and stake of the nominator and the two sums of the target
NoReg ==
    [active_era_index |-> 0, history_depth |-> 0,
     prefs |-> [commission |-> EmptyFn, blocked |-> {}],
     controller |-> None, own_stake |-> 0, validator_data |-> EmptyFn, i |-> 0,
     nominator_stake |-> 0, nominators_stake |-> 0, total_stake |-> 0]

---------------------------------------------------------------------------
(* The Indexer: the history task H and the subscription task S, each under *)
(* its supervisor, and the node producing EraPaid events.                  *)
(*   hPc    "start" | "network" | "finish" | "done"                        *)
(*   sPc    "idle" (no Sync, no subscription) | "next" (awaiting           *)
(*          sub.next()) | "is_syncing" | "resync"                          *)
(*   sSub   the events the subscription holds for S, oldest first          *)
(*   sEvent the event S took, sTodo the commands left of its resync,       *)
(*   sReg   the locals of the pass S is in                                 *)
(*   log    a history of the run, read by the properties only              *)

NoLog ==
    [events |-> 0, fails |-> 0, arrived_syncing |-> {}, arrived_busy |-> {},
     skipped |-> {}, started |-> {}, finished |-> {}, begun |-> <<>>, done |-> <<>>,
     aborted |-> FALSE, retry |-> 0, requests |-> 0, syncing_writes |-> {}, scenario |-> "run",
     served |-> EmptyFn]

\* S has written status(Started) for the event it holds and not yet status(Finished)
SInResync == sPc = "resync" /\ sEvent.id \in log.started

\* H has written status(Started) and not yet status(Finished)
HInSync == hPc \in {"network", "finish"}

\* Sync::history: ready_or_await, status(Started)
HStatusStarted ==
    /\ hPc = "start"
    /\ cache' = status(cache, "Started")
    /\ hPc' = "network"
    /\ UNCHANGED <<chain, sPc, sSub, sEvent, sTodo, sReg, rq, log, rk>>

\* Sync::history with a validators pass after network(), resetting the
\* nominators_stake of the records it finds
HNetworkAndValidators ==
    /\ hPc = "network"
    /\ cache' = [network(cache) EXCEPT !.val =
                    [s \in DOMAIN cache.val |-> ("nominators_stake" :> 0) @@ cache.val[s]]]
    /\ hPc' = "finish"
    /\ UNCHANGED <<chain, sPc, sSub, sEvent, sTodo, sReg, rq, log, rk>>

\* Sync::history: network
HNetwork ==
    /\ hPc = "network"
    /\ cache' = network(cache)
    /\ hPc' = "finish"
    /\ UNCHANGED <<chain, sPc, sSub, sEvent, sTodo, sReg, rq, log, rk>>

\* Sync::history under a supervisor that loops on Ok(()) as it does on Err
HStatusFinishedLooping ==
    /\ hPc = "finish"
    /\ cache' = status(cache, "Finished")
    /\ hPc' = "start"
    /\ UNCHANGED <<chain, sPc, sSub, sEvent, sTodo, sReg, rq, log, rk>>

\* Sync::history: status(Finished), then the supervisor's break
HStatusFinished ==
    /\ hPc = "finish"
    /\ cache' = status(cache, "Finished")
    /\ hPc' = "done"
    /\ UNCHANGED <<chain, sPc, sSub, sEvent, sTodo, sReg, rq, log, rk>>

\* Sync::run_history: a step of history() returned Err; sleep, Sync::new, again
HFail ==
    /\ hPc \in {"start", "network", "finish"}
    /\ log.fails < MaxFail
    /\ hPc' = "start"
    /\ log' = [log EXCEPT !.fails = @ + 1]
    /\ UNCHANGED <<chain, cache, sPc, sSub, sEvent, sTodo, sReg, rq, rk>>

\* Sync::run_subscription: Sync::new, subscribe
SSubscribe ==
    /\ sPc = "idle"
    /\ sPc' = "next"
    /\ sSub' = <<>>
    /\ UNCHANGED <<chain, cache, hPc, sEvent, sTodo, sReg, rq, log, rk>>

\* the node pays an era: the active era advances and the subscription, when
\* there is one, receives EraPaid(era)
EraPaid ==
    /\ chain.activeEra < MaxEra
    /\ log.events < MaxEvents
    /\ Len(sSub) < MaxQueue
    /\ chain' = [chain EXCEPT !.activeEra = @ + 1]
    /\ sSub' = IF sPc = "idle" THEN sSub
               ELSE Append(sSub, [id |-> log.events + 1, era |-> chain.activeEra])
    /\ log' = [log EXCEPT
            !.events = @ + 1,
            !.arrived_syncing = IF sPc # "idle" /\ is_syncing(cache) THEN @ \cup {log.events + 1} ELSE @,
            !.arrived_busy = IF SInResync THEN @ \cup {log.events + 1} ELSE @,
            !.retry = IF sPc # "idle" /\ log.aborted /\ @ = 0 THEN log.events + 1 ELSE @]
    /\ UNCHANGED <<cache, hPc, sPc, sEvent, sTodo, sReg, rq, rk>>

\* sub.next().await returns an event
SNext ==
    /\ sPc = "next"
    /\ sSub # <<>>
    /\ sEvent' = Head(sSub)
    /\ sSub' = Tail(sSub)
    /\ sPc' = "is_syncing"
    /\ UNCHANGED <<chain, cache, hPc, sTodo, sReg, rq, log, rk>>

\* a subscriber that keeps the event it finds the cache syncing on, to take
\* it again later
SIsSyncingRequeue ==
    /\ sPc = "is_syncing"
    /\ sPc' = IF is_syncing(cache) THEN "next" ELSE "resync"
    /\ sTodo' = IF is_syncing(cache) THEN <<>> ELSE resync_cmds(sEvent.era)
    /\ sSub' = IF is_syncing(cache) THEN Append(sSub, sEvent) ELSE sSub
    /\ log' = IF is_syncing(cache)
              THEN [log EXCEPT !.skipped = @ \cup {sEvent.id}]
              ELSE [log EXCEPT !.begun = <<>>, !.done = <<>>]
    /\ UNCHANGED <<chain, cache, hPc, sEvent, sReg, rq, rk>>

\* if self.is_syncing().await? { continue; }
SIsSyncing ==
    /\ sPc = "is_syncing"
    /\ sPc' = IF is_syncing(cache) THEN "next" ELSE "resync"
    /\ sTodo' = IF is_syncing(cache) THEN <<>> ELSE resync_cmds(sEvent.era)
    /\ log' = IF is_syncing(cache)
              THEN [log EXCEPT !.skipped = @ \cup {sEvent.id}]
              ELSE [log EXCEPT !.begun = <<>>, !.done = <<>>]
    /\ UNCHANGED <<chain, cache, hPc, sSub, sEvent, sReg, rq, rk>>

\* the history after the head command of sTodo: passes begun and completed
log_step(l, ev, todo, rest) ==
    [l EXCEPT
        !.started = IF Head(todo).op = "Started" THEN @ \cup {ev.id} ELSE @,
        !.finished = IF Head(todo).op = "Finished" THEN @ \cup {ev.id} ELSE @,
        !.begun = IF @ # <<>> /\ @[Len(@)] = Head(todo).fn /\ Head(todo).fn # "status"
                  THEN @ ELSE Append(@, Head(todo).fn),
        !.done = IF rest # <<>> /\ Head(rest).fn = Head(todo).fn THEN @ ELSE Append(@, Head(todo).fn)]

\* S runs the next command of the function fn of its resync
SStep(fn) ==
    /\ sPc = "resync"
    /\ sTodo # <<>>
    /\ Head(sTodo).fn = fn
    /\ cache' = exec_cache(cache, chain, sReg, Head(sTodo))
    /\ sReg' = exec_reg(cache, chain, sReg, Head(sTodo))
    /\ sTodo' = exec_todo(cache, chain, sReg, sTodo)
    /\ sPc' = IF exec_todo(cache, chain, sReg, sTodo) = <<>> THEN "next" ELSE "resync"
    /\ log' = log_step(log, sEvent, sTodo, exec_todo(cache, chain, sReg, sTodo))
    /\ UNCHANGED <<chain, hPc, sSub, sEvent, rq, rk>>

SStatus == SStep("status")

SActiveEra == SStep("active_era")

SErasHistory == SStep("eras_history")

SValidators == SStep("validators")

SActiveValidators == SStep("active_validators")

SNominators == SStep("nominators")

\* Sync::run_subscription: subscribe_era_payout_events returned Err (a step
\* failed or the subscription ended); the Sync and its subscription are dropped
SFail ==
    /\ sPc # "idle"
    /\ log.fails < MaxFail
    /\ sPc' = "idle"
    /\ sSub' = <<>>
    /\ sEvent' = NoEvent
    /\ sTodo' = <<>>
    /\ log' = [log EXCEPT !.fails = @ + 1, !.aborted = @ \/ SInResync]
    /\ UNCHANGED <<chain, cache, hPc, sReg, rq, rk>>

---------------------------------------------------------------------------
(* handlers/validator.rs: the leaderboard engine.  Weights are sequences   *)
(* of WEIGHTS_CAPACITY integers; Intervals are <<>> (no i parameter) or    *)
(* sequences of INTERVALS_CAPACITY intervals [min, max] of f64.            *)

WEIGHTS_CAPACITY == 10

INTERVALS_CAPACITY == 10

Interval(lo, hi) == [min |-> lo, max |-> hi]

\* Interval::default()
IntervalDefault == Interval(F(0), F(0))

\* impl From<ValidatorCache> for Validator
validator_of(data) ==
    [stash |-> Get(data, "stash", 0),
     controller |-> Get(data, "controller", 0),
     name |-> Get(data, "name", NoName),
     own_stake |-> Get(data, "own_stake", 0),
     nominators |-> Get(data, "nominators", 0),
     nominators_stake |-> Get(data, "nominators_stake", 0),
     inclusion_rate |-> Get(data, "inclusion_rate", F(0)),
     avg_reward_points |-> Get(data, "avg_reward_points", F(0)),
     commission |-> Get(data, "commission", 0),
     blocked |-> Get(data, "blocked", FALSE),
     active |-> Get(data, "active", FALSE),
     reward_staked |-> Get(data, "reward_staked", FALSE),
     judgements |-> Get(data, "judgements", 0),
     sub_accounts |-> Get(data, "sub_accounts", 0)]

\* impl From<&Intervals> for BoardLimits
limits_of_intervals(data) ==
    [inclusion_rate |-> IF Len(data) >= 1 THEN data[1] ELSE IntervalDefault,
     commission |-> IF Len(data) >= 2 THEN data[2] ELSE IntervalDefault,
     nominators |-> IF Len(data) >= 3 THEN data[3] ELSE IntervalDefault,
     avg_reward_points |-> IF Len(data) >= 4 THEN data[4] ELSE IntervalDefault,
     reward_staked |-> IF Len(data) >= 5 THEN data[5] ELSE IntervalDefault,
     active |-> IF Len(data) >= 6 THEN data[6] ELSE IntervalDefault,
     own_stake |-> IF Len(data) >= 7 THEN data[7] ELSE IntervalDefault,
     total_stake |-> IF Len(data) >= 8 THEN data[8] ELSE IntervalDefault,
     judgements |-> IF Len(data) >= 9 THEN data[9] ELSE IntervalDefault,
     sub_accounts |-> IF Len(data) >= 10 THEN data[10] ELSE IntervalDefault]

\* impl From<BoardLimitsCache> for BoardLimits
limits_of_cache(data) ==
    [inclusion_rate |-> Interval(F(0), F(1)),
     commission |-> Interval(F(0), F(COMMISSION_PLANCK)),
     nominators |-> Interval(F(0), F(NOMINATORS_OVERSUBSCRIBED_THRESHOLD)),
     avg_reward_points |-> Interval(Get(data, "min_avg_reward_points", F(0)),
                                    Get(data, "max_avg_reward_points", F(100))),
     reward_staked |-> Interval(F(0), F(1)),
     active |-> Interval(F(0), F(1)),
     own_stake |-> Interval(Get(data, "min_own_stake", F(0)), Get(data, "max_own_stake", F(100))),
     total_stake |-> Interval(Get(data, "min_total_stake", F(0)), Get(data, "max_total_stake", F(100))),
     judgements |-> Interval(Get(data, "min_judgements", F(0)), Get(data, "max_judgements", F(100))),
     sub_accounts |-> Interval(Get(data, "min_sub_accounts", F(0)), Get(data, "max_sub_accounts", F(100)))]

\* get_board_name: the weights alone when there are no intervals, so that
\* None and Some(&vec![]) give one name
get_board_name(weights, intervals) == <<weights, intervals>>

\* sync::Key::BoardAtEra(era_index, name), and its ":scores" / ":limits" siblings
BoardAtEra(e, name) == <<e, name>>

\* Normalize value between min and max
normalize_value(value, lo, hi) ==
    IF REq(value, F(0)) \/ RLt(value, lo) THEN F(0)
    ELSE IF RGt(value, hi) THEN F(1)
    ELSE RDiv(RSub(value, lo), RSub(hi, lo))

\* a reverse normalization that does not reverse
reverse_normalize_value_forward(value, lo, hi) == normalize_value(value, lo, hi)

reverse_normalize_value(value, lo, hi) == RSub(F(1), normalize_value(value, lo, hi))

normalize_commission(commission) == RDiv(F(commission), F(COMMISSION_PLANCK))

reverse_normalize_commission(commission, lo, hi) ==
    reverse_normalize_value(normalize_commission(commission),
        RDiv(lo, F(COMMISSION_PLANCK)), RDiv(hi, F(COMMISSION_PLANCK)))

normalize_flag(flag) == IF flag THEN F(1) ELSE F(0)

\* scores in which the commission counts as higher-better
calculate_scores_commission_forward(validator, limits, weights) ==
    <<RMul(normalize_value(validator.inclusion_rate,
               limits.inclusion_rate.min, limits.inclusion_rate.max), F(weights[1])),
      RMul(normalize_value(normalize_commission(validator.commission),
               RDiv(limits.commission.min, F(COMMISSION_PLANCK)),
               RDiv(limits.commission.max, F(COMMISSION_PLANCK))), F(weights[2])),
      RMul(reverse_normalize_value(F(validator.nominators),
               limits.nominators.min, limits.nominators.max), F(weights[3])),
      RMul(normalize_value(validator.avg_reward_points,
               limits.avg_reward_points.min, limits.avg_reward_points.max), F(weights[4])),
      RMul(normalize_flag(validator.reward_staked), F(weights[5])),
      RMul(normalize_flag(validator.active), F(weights[6])),
      RMul(normalize_value(F(validator.own_stake),
               limits.own_stake.min, limits.own_stake.max), F(weights[7])),
      RMul(reverse_normalize_value(F(validator.own_stake + validator.nominators_stake),
               limits.total_stake.min, limits.total_stake.max), F(weights[8])),
      RMul(normalize_value(F(validator.judgements),
               limits.judgements.min, limits.judgements.max), F(weights[9])),
      RMul(reverse_normalize_value(F(validator.sub_accounts),
               limits.sub_accounts.min, limits.sub_accounts.max), F(weights[10]))>>

calculate_scores(validator, limits, weights) ==
    <<RMul(normalize_value(validator.inclusion_rate,
               limits.inclusion_rate.min, limits.inclusion_rate.max), F(weights[1])),
      RMul(reverse_normalize_commission(validator.commission,
               limits.commission.min, limits.commission.max), F(weights[2])),
      RMul(reverse_normalize_value(F(validator.nominators),
               limits.nominators.min, limits.nominators.max), F(weights[3])),
      RMul(normalize_value(validator.avg_reward_points,
               limits.avg_reward_points.min, limits.avg_reward_points.max), F(weights[4])),
      RMul(normalize_flag(validator.reward_staked), F(weights[5])),
      RMul(normalize_flag(validator.active), F(weights[6])),
      RMul(normalize_value(F(validator.own_stake),
               limits.own_stake.min, limits.own_stake.max), F(weights[7])),
      RMul(reverse_normalize_value(F(validator.own_stake + validator.nominators_stake),
               limits.total_stake.min, limits.total_stake.max), F(weights[8])),
      RMul(normalize_value(F(validator.judgements),
               limits.judgements.min, limits.judgements.max), F(weights[9])),
      RMul(reverse_normalize_value(F(validator.sub_accounts),
               limits.sub_accounts.min, limits.sub_accounts.max), F(weights[10]))>>

\* scores.iter().fold(0.0, |acc, x| acc + x)
total_score(scores) == RFold(F(0), scores)

\* a filter that lets every validator through
within_intervals_all(validator, limits) == TRUE

\* generate_board_filtered_by_intervals: the validator is within every interval
within_intervals(validator, limits) ==
    /\ ~(RLt(validator.inclusion_rate, limits.inclusion_rate.min)
         \/ RGt(validator.inclusion_rate, limits.inclusion_rate.max))
    /\ ~(RLt(F(validator.commission), limits.commission.min)
         \/ RGt(F(validator.commission), limits.commission.max))
    /\ ~(RLt(F(validator.nominators), limits.nominators.min)
         \/ (RGt(F(validator.nominators), limits.nominators.max)
             /\ RLt(limits.nominators.max, F(NOMINATORS_OVERSUBSCRIBED_THRESHOLD))))
    /\ ~(RLt(validator.avg_reward_points, limits.avg_reward_points.min)
         \/ RGt(validator.avg_reward_points, limits.avg_reward_points.max))
    /\ ~(RNe(normalize_flag(validator.reward_staked), limits.reward_staked.min)
         /\ REq(limits.reward_staked.min, limits.reward_staked.max))
    /\ ~(RNe(normalize_flag(validator.active), limits.active.min)
         /\ REq(limits.active.min, limits.active.max))
    /\ ~(validator.own_stake < TruncU(limits.own_stake.min)
         \/ validator.own_stake > TruncU(limits.own_stake.max))
    /\ ~(validator.own_stake + validator.nominators_stake < TruncU(limits.total_stake.min)
         \/ validator.own_stake + validator.nominators_stake > TruncU(limits.total_stake.max))
    /\ ~(RLt(F(validator.judgements), limits.judgements.min)
         \/ RGt(F(validator.judgements), limits.judgements.max))
    /\ ~(RLt(F(validator.sub_accounts), limits.sub_accounts.min)
         \/ RGt(F(validator.sub_accounts), limits.sub_accounts.max))

\* the scores of a raw board, as the f64 a ZRANGE ... WITHSCORES returns
board_scores(c, name) == {F(Get(c.board, <<0, name>>, EmptyFn)[m]) : m \in DOMAIN Get(c.board, <<0, name>>, EmptyFn)}

\* calculate_min_limit: the lowest score of the board, 0.0 when it is empty
calculate_min_limit(c, name) ==
    IF board_scores(c, name) = {} THEN F(0)
    ELSE CHOOSE x \in board_scores(c, name) : \A y \in board_scores(c, name) : RLe(x, y)

\* calculate_max_limit: the highest score of the board, 0.0 when it is empty
calculate_max_limit(c, name) ==
    IF board_scores(c, name) = {} THEN F(0)
    ELSE CHOOSE x \in board_scores(c, name) : \A y \in board_scores(c, name) : RLe(y, x)

\* the names cache_board_limits reads, in its order, with the limit each gives
LimitBoards ==
    <<<<BOARD_AVG_POINTS_ERAS, "avg_reward_points">>,
      <<BOARD_OWN_STAKE_VALIDATORS, "own_stake">>,
      <<BOARD_TOTAL_STAKE_VALIDATORS, "total_stake">>,
      <<BOARD_JUDGEMENTS_VALIDATORS, "judgements">>,
      <<BOARD_SUB_ACCOUNTS_VALIDATORS, "sub_accounts">>>>

---------------------------------------------------------------------------
(* A request GET /validators?q=Board&w=..&i=..&n=.. : one step per cache   *)
(* command.  rq is the request in flight:                                  *)
(*   pc       the command it issues next, "idle" when none is in flight    *)
(*   e, w, i, n  era:active as read, and the parameters                    *)
(*   limits   the BoardLimits of the generator running                     *)
(*   lim      cache_board_limits: the BoardLimitsCache being filled        *)
(*   k        cache_board_limits: the read it issues next                  *)
(*   stashes  the stashes of ZRANGE still to score                         *)
(*   val      the Validator of the last HGETALL                            *)
(*   status   of the last response, 0 before any; addresses of the last    *)
(*            200 response                                                 *)

NoRq ==
    [pc |-> "idle", e |-> 0, w |-> <<>>, i |-> <<>>, n |-> 0, limits |-> limits_of_intervals(<<>>),
     lim |-> EmptyFn, k |-> 0, stashes |-> <<>>, val |-> validator_of(EmptyFn),
     status |-> 0, addresses |-> <<>>]

\* the request ends with an ApiError
respond_error(r, code) == [NoRq EXCEPT !.status = code, !.e = r.e, !.w = r.w, !.i = r.i, !.n = r.n]

\* a write of the request task, recorded when Info.syncing is true as it
\* executes (the first such write of a behaviour)
log_write(l, c, pc) == [l EXCEPT !.syncing_writes = IF is_syncing(c) /\ @ = {} THEN {pc} ELSE @]

\* ZRANGE {era}:era:all:val:board -inf +inf BYSCORE
zrange_all(c, e) == SortedSeq(DOMAIN Get(c.board, BoardAtEra(e, BOARD_ALL_VALIDATORS), EmptyFn))

\* get_validators: GET era:active, then get_board_validators
ReqGetValidators(w, i, n) ==
    /\ rq.pc = "idle"
    /\ log.requests < MaxReq
    /\ rq' = IF cache.era_active = None
             THEN respond_error([NoRq EXCEPT !.w = w, !.i = i, !.n = n], 500)
             ELSE [NoRq EXCEPT !.pc = "gbs_exists", !.e = cache.era_active, !.w = w, !.i = i, !.n = n]
    /\ log' = [log EXCEPT !.requests = @ + 1]
    /\ UNCHANGED <<chain, cache, hPc, sPc, sSub, sEvent, sTodo, sReg, rk>>

\* generate_board_scores: EXISTS key; if exists { return Ok(()) }
ReqGbsExists ==
    /\ rq.pc = "gbs_exists"
    /\ rq' = [rq EXCEPT !.pc = IF EXISTS(cache.wboard, BoardAtEra(rq.e, get_board_name(rq.w, <<>>)))
                               THEN "gbf_exists" ELSE "gbs_is_syncing"]
    /\ UNCHANGED <<chain, cache, hPc, sPc, sSub, sEvent, sTodo, sReg, log, rk>>

\* generate_board_scores without the check of the syncing flag
ReqGbsSyncingIgnored ==
    /\ rq.pc = "gbs_is_syncing"
    /\ rq' = [rq EXCEPT !.pc = "gbs_limits_read", !.k = 1, !.lim = EmptyFn]
    /\ UNCHANGED <<chain, cache, hPc, sPc, sSub, sEvent, sTodo, sReg, log, rk>>

\* generate_board_scores: if !exists && is_syncing { return Err(NotFound) }
ReqGbsIsSyncing ==
    /\ rq.pc = "gbs_is_syncing"
    /\ rq' = IF is_syncing(cache) THEN respond_error(rq, 404)
             ELSE [rq EXCEPT !.pc = "gbs_limits_read", !.k = 1, !.lim = EmptyFn]
    /\ UNCHANGED <<chain, cache, hPc, sPc, sSub, sEvent, sTodo, sReg, log, rk>>

\* cache_board_limits: calculate_min_max_interval of the board (k + 1) / 2,
\* the max limit first (k odd), then the min limit
ReqGbsLimitsRead ==
    /\ rq.pc = "gbs_limits_read"
    /\ rq' = [rq EXCEPT
            !.lim = IF rq.k % 2 = 1
                    THEN ("max_" \o LimitBoards[(rq.k + 1) \div 2][2]
                            :> calculate_max_limit(cache, LimitBoards[(rq.k + 1) \div 2][1])) @@ @
                    ELSE ("min_" \o LimitBoards[(rq.k + 1) \div 2][2]
                            :> calculate_min_limit(cache, LimitBoards[(rq.k + 1) \div 2][1])) @@ @,
            !.k = @ + 1,
            !.pc = IF rq.k = 2 * Len(LimitBoards) THEN "gbs_limits_hset" ELSE @]
    /\ UNCHANGED <<chain, cache, hPc, sPc, sSub, sEvent, sTodo, sReg, log, rk>>

\* a cache_board_limits that computes the limits and does not store them
ReqGbsLimitsHsetSkipped ==
    /\ rq.pc = "gbs_limits_hset"
    /\ rq' = [rq EXCEPT !.pc = "gbs_zrange", !.limits = limits_of_cache(rq.lim)]
    /\ UNCHANGED <<chain, cache, hPc, sPc, sSub, sEvent, sTodo, sReg, log, rk>>

\* cache_board_limits: HSET {era}:era:{name}:limits:board limits
ReqGbsLimitsHset ==
    /\ rq.pc = "gbs_limits_hset"
    /\ cache' = [cache EXCEPT !.wlimits = HSET(cache.wlimits, BoardAtEra(rq.e, get_board_name(rq.w, <<>>)), rq.lim)]
    /\ rq' = [rq EXCEPT !.pc = "gbs_zrange", !.limits = limits_of_cache(rq.lim)]
    /\ log' = log_write(log, cache, "gbs_limits_hset")
    /\ UNCHANGED <<chain, hPc, sPc, sSub, sEvent, sTodo, sReg, rk>>

\* generate_board_scores: ZRANGE of the board of all validators
ReqGbsZrange ==
    /\ rq.pc = "gbs_zrange"
    /\ rq' = [rq EXCEPT !.pc = "gbs_hgetall", !.stashes = zrange_all(cache, rq.e)]
    /\ UNCHANGED <<chain, cache, hPc, sPc, sSub, sEvent, sTodo, sReg, log, rk>>

\* a generator that scores blocked validators as well
ReqGbsHgetallBlocked ==
    /\ rq.pc = "gbs_hgetall"
    /\ rq' = IF rq.stashes = <<>> THEN [rq EXCEPT !.pc = "gbf_exists"]
             ELSE [rq EXCEPT !.pc = "gbs_zadd",
                             !.val = validator_of(Get(cache.val, Head(rq.stashes), EmptyFn))]
    /\ UNCHANGED <<chain, cache, hPc, sPc, sSub, sEvent, sTodo, sReg, log, rk>>

\* generate_board_scores: HGETALL {stash}:val; a blocked validator gets no
\* score; after the last stash the filtered generator starts
ReqGbsHgetall ==
    /\ rq.pc = "gbs_hgetall"
    /\ rq' = IF rq.stashes = <<>> THEN [rq EXCEPT !.pc = "gbf_exists"]
             ELSE IF validator_of(Get(cache.val, Head(rq.stashes), EmptyFn)).blocked
             THEN [rq EXCEPT !.stashes = Tail(@)]
             ELSE [rq EXCEPT !.pc = "gbs_zadd",
                             !.val = validator_of(Get(cache.val, Head(rq.stashes), EmptyFn))]
    /\ UNCHANGED <<chain, cache, hPc, sPc, sSub, sEvent, sTodo, sReg, log, rk>>

\* generate_board_scores: ZADD key score stash; the cache rejects a NaN score
ReqGbsZadd ==
    /\ rq.pc = "gbs_zadd"
    /\ cache' = IF IsNaN(total_score(calculate_scores(rq.val, rq.limits, rq.w))) THEN cache
                ELSE [cache EXCEPT !.wboard = ZADD(cache.wboard, BoardAtEra(rq.e, get_board_name(rq.w, <<>>)),
                        total_score(calculate_scores(rq.val, rq.limits, rq.w)), Head(rq.stashes))]
    /\ rq' = IF IsNaN(total_score(calculate_scores(rq.val, rq.limits, rq.w)))
             THEN respond_error(rq, 500) ELSE [rq EXCEPT !.pc = "gbs_hset"]
    /\ log' = IF IsNaN(total_score(calculate_scores(rq.val, rq.limits, rq.w))) THEN log
              ELSE log_write(log, cache, "gbs_zadd")
    /\ UNCHANGED <<chain, hPc, sPc, sSub, sEvent, sTodo, sReg, rk>>

\* generate_board_scores: HSET {era}:era:{name}:scores:board stash scores
ReqGbsHset ==
    /\ rq.pc = "gbs_hset"
    /\ cache' = [cache EXCEPT !.wscores = HSET(cache.wscores, BoardAtEra(rq.e, get_board_name(rq.w, <<>>)),
                    Head(rq.stashes) :> calculate_scores(rq.val, rq.limits, rq.w))]
    /\ rq' = [rq EXCEPT !.pc = "gbs_hgetall", !.stashes = Tail(@)]
    /\ log' = log_write(log, cache, "gbs_hset")
    /\ UNCHANGED <<chain, hPc, sPc, sSub, sEvent, sTodo, sReg, rk>>

\* generate_board_filtered_by_intervals: EXISTS key (the early return on an
\* existing key is commented out in the code)
ReqGbfExists ==
    /\ rq.pc = "gbf_exists"
    /\ rq' = [rq EXCEPT !.pc = IF EXISTS(cache.wboard, BoardAtEra(rq.e, get_board_name(rq.w, rq.i)))
                               THEN "gbf_zrange" ELSE "gbf_is_syncing",
                        !.limits = limits_of_intervals(rq.i)]
    /\ UNCHANGED <<chain, cache, hPc, sPc, sSub, sEvent, sTodo, sReg, log, rk>>

\* generate_board_filtered_by_intervals: if !exists && is_syncing { return Err(NotFound) }
ReqGbfIsSyncing ==
    /\ rq.pc = "gbf_is_syncing"
    /\ rq' = IF is_syncing(cache) THEN respond_error(rq, 404) ELSE [rq EXCEPT !.pc = "gbf_zrange"]
    /\ UNCHANGED <<chain, cache, hPc, sPc, sSub, sEvent, sTodo, sReg, log, rk>>

\* generate_board_filtered_by_intervals: ZRANGE of the board of all validators
ReqGbfZrange ==
    /\ rq.pc = "gbf_zrange"
    /\ rq' = [rq EXCEPT !.pc = "gbf_hgetall", !.stashes = zrange_all(cache, rq.e)]
    /\ UNCHANGED <<chain, cache, hPc, sPc, sSub, sEvent, sTodo, sReg, log, rk>>

\* generate_board_filtered_by_intervals: HGETALL {stash}:val; a validator
\* that is blocked or outside an interval gets no score
ReqGbfHgetall ==
    /\ rq.pc = "gbf_hgetall"
    /\ rq' = IF rq.stashes = <<>> THEN [rq EXCEPT !.pc = "stats"]
             ELSE IF validator_of(Get(cache.val, Head(rq.stashes), EmptyFn)).blocked
                     \/ ~within_intervals(validator_of(Get(cache.val, Head(rq.stashes), EmptyFn)), rq.limits)
             THEN [rq EXCEPT !.stashes = Tail(@)]
             ELSE [rq EXCEPT !.pc = "gbf_zadd",
                             !.val = validator_of(Get(cache.val, Head(rq.stashes), EmptyFn))]
    /\ UNCHANGED <<chain, cache, hPc, sPc, sSub, sEvent, sTodo, sReg, log, rk>>

\* a filtered generator that adds 1 to the score of a member it scores again
ReqGbfZaddAccumulating ==
    /\ rq.pc = "gbf_zadd"
    /\ cache' = IF IsNaN(total_score(calculate_scores(rq.val, rq.limits, rq.w))) THEN cache
                ELSE [cache EXCEPT !.wboard = ZADD(cache.wboard, BoardAtEra(rq.e, get_board_name(rq.w, rq.i)),
                        IF Head(rq.stashes) \in DOMAIN Get(cache.wboard, BoardAtEra(rq.e, get_board_name(rq.w, rq.i)), EmptyFn)
                        THEN RAdd(total_score(calculate_scores(rq.val, rq.limits, rq.w)), F(1))
                        ELSE total_score(calculate_scores(rq.val, rq.limits, rq.w)),
                        Head(rq.stashes))]
    /\ rq' = IF IsNaN(total_score(calculate_scores(rq.val, rq.limits, rq.w)))
             THEN respond_error(rq, 500) ELSE [rq EXCEPT !.pc = "gbf_hset"]
    /\ log' = IF IsNaN(total_score(calculate_scores(rq.val, rq.limits, rq.w))) THEN log
              ELSE log_write(log, cache, "gbf_zadd")
    /\ UNCHANGED <<chain, hPc, sPc, sSub, sEvent, sTodo, sReg, rk>>

\* generate_board_filtered_by_intervals: ZADD key score stash
ReqGbfZadd ==
    /\ rq.pc = "gbf_zadd"
    /\ cache' = IF IsNaN(total_score(calculate_scores(rq.val, rq.limits, rq.w))) THEN cache
                ELSE [cache EXCEPT !.wboard = ZADD(cache.wboard, BoardAtEra(rq.e, get_board_name(rq.w, rq.i)),
                        total_score(calculate_scores(rq.val, rq.limits, rq.w)), Head(rq.stashes))]
    /\ rq' = IF IsNaN(total_score(calculate_scores(rq.val, rq.limits, rq.w)))
             THEN respond_error(rq, 500) ELSE [rq EXCEPT !.pc = "gbf_hset"]
    /\ log' = IF IsNaN(total_score(calculate_scores(rq.val, rq.limits, rq.w))) THEN log
              ELSE log_write(log, cache, "gbf_zadd")
    /\ UNCHANGED <<chain, hPc, sPc, sSub, sEvent, sTodo, sReg, rk>>

\* generate_board_filtered_by_intervals: HSET {era}:era:{name}:scores:board stash scores
ReqGbfHset ==
    /\ rq.pc = "gbf_hset"
    /\ cache' = [cache EXCEPT !.wscores = HSET(cache.wscores, BoardAtEra(rq.e, get_board_name(rq.w, rq.i)),
                    Head(rq.stashes) :> calculate_scores(rq.val, rq.limits, rq.w))]
    /\ rq' = [rq EXCEPT !.pc = "gbf_hgetall", !.stashes = Tail(@)]
    /\ log' = log_write(log, cache, "gbf_hset")
    /\ UNCHANGED <<chain, hPc, sPc, sSub, sEvent, sTodo, sReg, rk>>

\* increase_board_stats as a read of the counter followed by an HSET of 1
ReqStatsSet ==
    /\ rq.pc = "stats"
    /\ cache' = [cache EXCEPT !.stats = (BoardAtEra(rq.e, get_board_name(rq.w, rq.i)) :> 1) @@ @]
    /\ rq' = [rq EXCEPT !.pc = "gbl_exists"]
    /\ UNCHANGED <<chain, hPc, sPc, sSub, sEvent, sTodo, sReg, log, rk>>

\* increase_board_stats that also records the time of the count in Info
ReqStatsStamped ==
    /\ rq.pc = "stats"
    /\ cache' = [cache EXCEPT !.stats = (BoardAtEra(rq.e, get_board_name(rq.w, rq.i))
                    :> (Get(cache.stats, BoardAtEra(rq.e, get_board_name(rq.w, rq.i)), 0) + 1)) @@ @,
                              !.info = ("counted_at" :> "now") @@ @]
    /\ rq' = [rq EXCEPT !.pc = "gbl_exists"]
    /\ UNCHANGED <<chain, hPc, sPc, sSub, sEvent, sTodo, sReg, log, rk>>

\* increase_board_stats: HINCRBY stats key 1
ReqStats ==
    /\ rq.pc = "stats"
    /\ cache' = [cache EXCEPT !.stats = (BoardAtEra(rq.e, get_board_name(rq.w, rq.i))
                    :> (Get(cache.stats, BoardAtEra(rq.e, get_board_name(rq.w, rq.i)), 0) + 1)) @@ @]
    /\ rq' = [rq EXCEPT !.pc = "gbl_exists"]
    /\ UNCHANGED <<chain, hPc, sPc, sSub, sEvent, sTodo, sReg, log, rk>>

\* get_board_limits: EXISTS of the ":limits" key of the weights-only name
ReqGblExists ==
    /\ rq.pc = "gbl_exists"
    /\ rq' = IF EXISTS(cache.wlimits, BoardAtEra(rq.e, get_board_name(rq.w, <<>>)))
             THEN [rq EXCEPT !.pc = "gbl_hgetall"] ELSE respond_error(rq, 404)
    /\ UNCHANGED <<chain, cache, hPc, sPc, sSub, sEvent, sTodo, sReg, log, rk>>

\* get_board_limits: HGETALL of the ":limits" key
ReqGblHgetall ==
    /\ rq.pc = "gbl_hgetall"
    /\ rq' = IF DOMAIN Get(cache.wlimits, BoardAtEra(rq.e, get_board_name(rq.w, <<>>)), EmptyFn) = {}
             THEN respond_error(rq, 500)
             ELSE [rq EXCEPT !.pc = "stashes",
                     !.limits = limits_of_cache(cache.wlimits[BoardAtEra(rq.e, get_board_name(rq.w, <<>>))])]
    /\ UNCHANGED <<chain, cache, hPc, sPc, sSub, sEvent, sTodo, sReg, log, rk>>

\* the members of a sorted set by descending score, ties by descending member
RECURSIVE rev_by_score(_)
rev_by_score(z) ==
    IF DOMAIN z = {} THEN <<>>
    ELSE LET m == CHOOSE x \in DOMAIN z : \A y \in DOMAIN z :
                        RGt(z[x], z[y]) \/ (z[x] = z[y] /\ x >= y)
         IN  <<m>> \o rev_by_score([y \in DOMAIN z \ {m} |-> z[y]])

\* get_validators_stashes with a LIMIT of 0 read as no limit
get_validators_stashes_unlimited(z, n) ==
    LET all == rev_by_score([m \in {x \in DOMAIN z : RLe(F(0), z[x])} |-> z[m]])
    IN  IF n <= 0 THEN all ELSE SubSeq(all, 1, IF n < Len(all) THEN n ELSE Len(all))

\* get_validators_stashes: ZRANGE key +inf 0 BYSCORE REV LIMIT 0 n
get_validators_stashes(z, n) ==
    LET all == rev_by_score([m \in {x \in DOMAIN z : RLe(F(0), z[x])} |-> z[m]])
    IN  IF n < 0 THEN all ELSE SubSeq(all, 1, IF n < Len(all) THEN n ELSE Len(all))

\* the history after a response: the addresses returned for <<era, w, i, n>>,
\* with the board and its sub-scores as they were
log_served(l, c, r) ==
    [l EXCEPT !.served = (<<r.e, r.w, r.i, r.n>> :>
        [addresses |-> get_validators_stashes(
                          Get(c.wboard, BoardAtEra(r.e, get_board_name(r.w, r.i)), EmptyFn), r.n),
         board |-> Get(c.wboard, BoardAtEra(r.e, get_board_name(r.w, r.i)), EmptyFn),
         scores |-> Get(c.wscores, BoardAtEra(r.e, get_board_name(r.w, r.i)), EmptyFn)]) @@ @]

\* get_board_validators: the addresses of the response
ReqStashes ==
    /\ rq.pc = "stashes"
    /\ rq' = [NoRq EXCEPT !.status = 200, !.e = rq.e, !.w = rq.w, !.i = rq.i, !.n = rq.n,
                !.limits = rq.limits,
                !.addresses = get_validators_stashes(
                    Get(cache.wboard, BoardAtEra(rq.e, get_board_name(rq.w, rq.i)), EmptyFn), rq.n)]
    /\ log' = log_served(log, cache, rq)
    /\ UNCHANGED <<chain, cache, hPc, sPc, sSub, sEvent, sTodo, sReg, rk>>

---------------------------------------------------------------------------
(* The node at start and the specification of the Indexer *)

\* every stash validates and is bonded, the first is in the session; every
\* nominator targets the first stash and the last nominator is not bonded
ChainA ==
    [activeEra |-> 2, historyDepth |-> 2,
     validators |-> Stashes, blocked |-> {}, commission |-> [s \in Stashes |-> 0],
     bonded |-> Accounts \ {NStash + NNom}, ledger |-> [a \in Accounts |-> 10 * a],
     staked |-> {1}, targets |-> [n \in Nominators |-> {1}], session |-> {1},
     judgements |-> [s \in Stashes |-> 1], subs |-> [s \in Stashes |-> 0],
     identity |-> {1}, super |-> EmptyFn, points |-> [s \in Stashes |-> 10 * s]]

\* the last stash is blocked and only in the session, the first has no
\* stake of its own; the nominators target every stash
ChainB ==
    [activeEra |-> 2, historyDepth |-> 2,
     validators |-> Stashes \ {NStash}, blocked |-> {NStash},
     commission |-> [s \in Stashes |-> 500000000],
     bonded |-> Accounts, ledger |-> [a \in Accounts |-> IF a = 1 THEN 0 ELSE 10 * a],
     staked |-> {}, targets |-> [n \in Nominators |-> Stashes], session |-> Stashes,
     judgements |-> [s \in Stashes |-> 0], subs |-> [s \in Stashes |-> s],
     identity |-> Stashes, super |-> EmptyFn, points |-> [s \in Stashes |-> 20]]

Chains == {ChainA, ChainB}

\* every stash validates, is in the session and charges its own commission;
\* every nominator is bonded and targets the stashes from its rank on, so
\* that no two stashes have the same total stake
ChainC ==
    [activeEra |-> 2, historyDepth |-> 2,
     validators |-> Stashes, blocked |-> {},
     commission |-> [s \in Stashes |-> (s - 1) * (COMMISSION_PLANCK \div 10)],
     bonded |-> Accounts, ledger |-> [a \in Accounts |-> 10 * a],
     staked |-> {1}, targets |-> [n \in Nominators |-> {s \in Stashes : s >= n - NStash}],
     session |-> Stashes,
     judgements |-> [s \in Stashes |-> s], subs |-> [s \in Stashes |-> s - 1],
     identity |-> Stashes, super |-> EmptyFn, points |-> [s \in Stashes |-> 10 * s]]

Init ==
    /\ chain \in Chains
    /\ cache = EmptyCache
    /\ hPc = "start"
    /\ sPc = "idle"
    /\ sSub = <<>>
    /\ sEvent = NoEvent
    /\ sTodo = <<>>
    /\ sReg = NoReg
    /\ rq = NoRq
    /\ rk = NoRq
    /\ log = NoLog

Next ==
    \/ HStatusStarted
    \/ HNetwork
    \/ HStatusFinished
    \/ HFail
    \/ EraPaid
    \/ SSubscribe
    \/ SNext
    \/ SIsSyncing
    \/ SStatus
    \/ SActiveEra
    \/ SErasHistory
    \/ SValidators
    \/ SActiveValidators
    \/ SNominators
    \/ SFail

Spec == Init /\ [][Next]_vars

---------------------------------------------------------------------------
(* The Indexer together with the request task *)

\* w=5,5,5,5,5,5,5,5,5,5
W5 == [k \in 1..WEIGHTS_CAPACITY |-> 5]

\* w=1,2,3,4,5,6,7,8,9,0
WMix == [k \in 1..WEIGHTS_CAPACITY |-> k % 10]

\* i=0:1,0:1000000000,0:256,0:100,0:1,0:1,0:1000,0:1000,0:10,0:10
IWide ==
    <<Interval(F(0), F(1)), Interval(F(0), F(COMMISSION_PLANCK)),
      Interval(F(0), F(NOMINATORS_OVERSUBSCRIBED_THRESHOLD)), Interval(F(0), F(100)),
      Interval(F(0), F(1)), Interval(F(0), F(1)), Interval(F(0), F(1000)),
      Interval(F(0), F(1000)), Interval(F(0), F(10)), Interval(F(0), F(10))>>

\* a step of the request task, its parameters <<w, i, n>> drawn from params
ReqStep(params) ==
    \/ \E p \in params : ReqGetValidators(p[1], p[2], p[3])
    \/ ReqGbsExists
    \/ ReqGbsIsSyncing
    \/ ReqGbsLimitsRead
    \/ ReqGbsLimitsHset
    \/ ReqGbsZrange
    \/ ReqGbsHgetall
    \/ ReqGbsZadd
    \/ ReqGbsHset
    \/ ReqGbfExists
    \/ ReqGbfIsSyncing
    \/ ReqGbfZrange
    \/ ReqGbfHgetall
    \/ ReqGbfZadd
    \/ ReqGbfHset
    \/ ReqStats
    \/ ReqGblExists
    \/ ReqGblHgetall
    \/ ReqStashes

\* the cache after the commands todo, run to the end without interleaving
RECURSIVE run_cmds(_, _, _, _)
run_cmds(c, ch, reg, todo) ==
    IF todo = <<>> THEN c
    ELSE run_cmds(exec_cache(c, ch, reg, Head(todo)), ch,
                  exec_reg(c, ch, reg, Head(todo)), exec_todo(c, ch, reg, todo))

\* the node after n eras were paid
paid(ch, n) == [ch EXCEPT !.activeEra = @ + n]

\* the cache after S resynced on EraPaid(ch.activeEra) of an empty cache
synced(ch) == run_cmds(EmptyCache, paid(ch, 1), NoReg, resync_cmds(ch.activeEra))

\* H has completed, S has resynced on the first event and awaits the next
InitBoard ==
    /\ chain = paid(ChainC, 1)
    /\ cache = status(network(synced(ChainC)), "Finished")
    /\ hPc = "done"
    /\ sPc = "next"
    /\ sSub = <<>>
    /\ sEvent = [id |-> 1, era |-> ChainC.activeEra]
    /\ sTodo = <<>>
    /\ sReg = NoReg
    /\ rq = NoRq
    /\ rk = NoRq
    /\ log = [NoLog EXCEPT !.events = 1, !.started = {1}, !.finished = {1}]

\* the parameters <<w, i, n>> of the requests that race the Indexer
BoardParams == {<<WMix, IWide, 1>>}

NextBoard ==
    \/ EraPaid
    \/ SSubscribe
    \/ SNext
    \/ SIsSyncing
    \/ SStatus
    \/ SActiveEra
    \/ SErasHistory
    \/ SValidators
    \/ SActiveValidators
    \/ SNominators
    \/ SFail
    \/ ReqStep(BoardParams)

SpecBoard == InitBoard /\ [][NextBoard]_vars

---------------------------------------------------------------------------
(* The Indexer and the request task while the node's validator preferences *)
(* change: a validator may call Staking::validate with blocked = true at   *)
(* any time.                                                               *)

\* the node accepts validate(prefs) of the last stash, prefs.blocked = true
Validate ==
    /\ NStash \notin chain.blocked
    /\ chain' = [chain EXCEPT !.blocked = @ \cup {NStash}]
    /\ UNCHANGED <<cache, hPc, sPc, sSub, sEvent, sTodo, sReg, rq, log, rk>>

NextDrift ==
    \/ Validate
    \/ EraPaid
    \/ SSubscribe
    \/ SNext
    \/ SIsSyncing
    \/ SStatus
    \/ SActiveEra
    \/ SErasHistory
    \/ SValidators
    \/ SActiveValidators
    \/ SNominators
    \/ SFail
    \/ ReqStep(BoardParams)

SpecDrift == InitBoard /\ [][NextDrift]_vars

---------------------------------------------------------------------------
(* The request task alone, on the cache of scenario S3: three validators   *)
(* that are not blocked, with inclusion rates 1.0, 0.5, 0.0, commissions   *)
(* 0, 5 * 10^8, 10^9 and every other attribute zero, as the validators     *)
(* pass writes them (no own stake board, since no stake is non-zero).      *)

S3Era == MaxEra - 1

S3Stashes == {1, 2, 3}

S3Validator(s) ==
    [active |-> FALSE, commission |-> (s - 1) * (COMMISSION_PLANCK \div 2), blocked |-> FALSE,
     controller |-> s, own_stake |-> 0, reward_staked |-> FALSE,
     inclusion_rate |-> Rat(3 - s, 2), avg_reward_points |-> F(0),
     name |-> NoName, judgements |-> 0, sub_accounts |-> 0, nominators |-> 0, nominators_stake |-> 0]

S3Cache ==
    [EmptyCache EXCEPT
        !.info = status_data("Finished"),
        !.era_active = S3Era,
        !.val = [s \in S3Stashes |-> S3Validator(s)],
        !.board = (BoardAtEra(S3Era, BOARD_ALL_VALIDATORS) :> [s \in S3Stashes |-> 0])
                  @@ (BoardAtEra(0, BOARD_JUDGEMENTS_VALIDATORS) :> [s \in S3Stashes |-> 0])
                  @@ (BoardAtEra(0, BOARD_SUB_ACCOUNTS_VALIDATORS) :> [s \in S3Stashes |-> 0])]

InitServe ==
    /\ chain = paid(ChainC, 1)
    /\ cache = S3Cache
    /\ hPc = "done"
    /\ sPc = "next"
    /\ sSub = <<>>
    /\ sEvent = NoEvent
    /\ sTodo = <<>>
    /\ sReg = NoReg
    /\ rq = NoRq
    /\ rk = NoRq
    /\ log = [NoLog EXCEPT !.scenario = "S3"]

\* the parameters <<w, i, n>> of the requests served
ServeParams == {<<W5, <<>>, 3>>, <<W5, IWide, 2>>, <<WMix, IWide, 1>>}

NextServe == ReqStep(ServeParams)

SpecServe == InitServe /\ [][NextServe]_vars

---------------------------------------------------------------------------
(* The request task filtering a synced cache by intervals *)

FilterStashes == {1, 2, 3}

\* the Validator records of a synced cache: the first stash is oversubscribed,
\* the second is an inactive validator with a commission, the third is blocked
FilterValidator(s) ==
    [active |-> (s = 1), commission |-> IF s = 2 THEN COMMISSION_PLANCK \div 10 ELSE 0,
     blocked |-> (s = 3), controller |-> s, own_stake |-> 10 * s, reward_staked |-> (s = 1),
     inclusion_rate |-> IF s = 1 THEN F(1) ELSE Rat(1, 2),
     avg_reward_points |-> IF s = 1 THEN F(50) ELSE F(20),
     name |-> NoName, judgements |-> IF s = 1 THEN 1 ELSE 0, sub_accounts |-> (4 - s) % 3,
     nominators |-> IF s = 1 THEN 300 ELSE IF s = 2 THEN 128 ELSE 0,
     nominators_stake |-> IF s = 1 THEN 90 ELSE 30]

FilterCache ==
    [EmptyCache EXCEPT
        !.info = status_data("Finished"),
        !.era_active = S3Era,
        !.val = [s \in FilterStashes |-> FilterValidator(s)],
        !.board = (BoardAtEra(S3Era, BOARD_ALL_VALIDATORS) :> [s \in FilterStashes |-> 0])
                  @@ (BoardAtEra(S3Era, BOARD_ACTIVE_VALIDATORS) :> (1 :> 0))
                  @@ (BoardAtEra(0, BOARD_OWN_STAKE_VALIDATORS)
                        :> [s \in FilterStashes |-> FilterValidator(s).own_stake])
                  @@ (BoardAtEra(0, BOARD_TOTAL_STAKE_VALIDATORS)
                        :> [s \in FilterStashes |->
                              FilterValidator(s).own_stake + FilterValidator(s).nominators_stake])
                  @@ (BoardAtEra(0, BOARD_JUDGEMENTS_VALIDATORS)
                        :> [s \in FilterStashes |-> FilterValidator(s).judgements])
                  @@ (BoardAtEra(0, BOARD_SUB_ACCOUNTS_VALIDATORS)
                        :> [s \in FilterStashes |-> FilterValidator(s).sub_accounts])]

InitFilter ==
    /\ chain = paid(ChainC, 1)
    /\ cache = FilterCache
    /\ hPc = "done"
    /\ sPc = "next"
    /\ sSub = <<>>
    /\ sEvent = NoEvent
    /\ sTodo = <<>>
    /\ sReg = NoReg
    /\ rq = NoRq
    /\ rk = NoRq
    /\ log = [NoLog EXCEPT !.scenario = "filter"]

\* the intervals of IWide with the k-th replaced
WithInterval(k, lo, hi) == [IWide EXCEPT ![k] = Interval(lo, hi)]

\* i=...,0:200,... / 0.75:1 / 0:50000000 / 1:1 (reward staked) / 0:0 (active) /
\* 10.5:1000 (own stake) / 50.5:1000 (total stake) / 1:1 (judgements)
FilterIntervals ==
    {IWide, WithInterval(3, F(0), F(200)), WithInterval(1, Rat(3, 4), F(1)),
     WithInterval(2, F(0), F(COMMISSION_PLANCK \div 20)),
     WithInterval(5, F(1), F(1)), WithInterval(6, F(0), F(0)),
     WithInterval(7, Rat(21, 2), F(1000)), WithInterval(8, Rat(101, 2), F(1000)),
     WithInterval(9, F(1), F(1))}

FilterParams == {<<W5, i, 3>> : i \in FilterIntervals}

NextFilter == ReqStep(FilterParams)

SpecFilter == InitFilter /\ [][NextFilter]_vars

---------------------------------------------------------------------------
(* The subscription task on chains of every session and every points *)

\* the points a validator has earned
PointsSet == {0, 10, 25}

\* the chains whose session is any set of stashes, each with any points
EraChains ==
    {[ChainA EXCEPT !.session = ss, !.points = pp] : ss \in SUBSET Stashes, pp \in [Stashes -> PointsSet]}

InitEras ==
    /\ chain \in EraChains
    /\ cache = status(network(EmptyCache), "Finished")
    /\ hPc = "done"
    /\ sPc = "idle"
    /\ sSub = <<>>
    /\ sEvent = NoEvent
    /\ sTodo = <<>>
    /\ sReg = NoReg
    /\ rq = NoRq
    /\ rk = NoRq
    /\ log = NoLog

NextEras ==
    \/ EraPaid
    \/ SSubscribe
    \/ SNext
    \/ SIsSyncing
    \/ SStatus
    \/ SActiveEra
    \/ SErasHistory
    \/ SValidators
    \/ SActiveValidators
    \/ SNominators

SpecEras == InitEras /\ [][NextEras]_vars

---------------------------------------------------------------------------
(* The subscription task on a cache that holds an era synced before: the   *)
(* node is at the era the cache was synced for, with any points            *)

ResyncChains == {[ChainA EXCEPT !.points = pp] : pp \in [Stashes -> PointsSet]}

InitResync ==
    /\ chain \in ResyncChains
    /\ cache = status(network(synced(ChainA)), "Finished")
    /\ hPc = "done"
    /\ sPc = "idle"
    /\ sSub = <<>>
    /\ sEvent = NoEvent
    /\ sTodo = <<>>
    /\ sReg = NoReg
    /\ rq = NoRq
    /\ rk = NoRq
    /\ log = [NoLog EXCEPT !.scenario = "resync"]

SpecResync == InitResync /\ [][NextEras]_vars

---------------------------------------------------------------------------
(* Sync::eras_history called for the eras of the history depth, with every *)
(* value of force                                                          *)

ForceSet == {"None", "Some(false)", "Some(true)"}

\* HEXISTS {era}:era synced_at
is_synced(c, e) == "synced_at" \in DOMAIN Get(c.era, e, EmptyFn)

\* a sync of an era that does not look at synced_at
eras_history_unconditional(c, e, force) == eras_history_cmds(e)

\* Sync::eras_history(era_index, force): the commands it issues
eras_history(c, e, force) ==
    IF force = "Some(true)" THEN eras_history_cmds(e)
    ELSE IF is_synced(c, e) THEN <<>>
    ELSE eras_history_cmds(e)

\* start_index..active_era_index of eras_history_depth
HistoryEras == window_min(chain.activeEra, chain.historyDepth)..(chain.activeEra - 1)

\* the task calls eras_history(e, force); the commands are run one by one
ErasHistory(e, force) ==
    /\ sPc = "next"
    /\ log.events < MaxEvents
    /\ sEvent' = [id |-> log.events + 1, era |-> e, force |-> force]
    /\ sTodo' = eras_history(cache, e, force)
    /\ sPc' = IF eras_history(cache, e, force) = <<>> THEN "next" ELSE "resync"
    /\ log' = [log EXCEPT !.events = @ + 1]
    /\ UNCHANGED <<chain, cache, hPc, sSub, sReg, rq, rk>>

InitHistory ==
    /\ chain \in {paid(ch, 1) : ch \in Chains}
    /\ cache = status(network(EmptyCache), "Finished")
    /\ hPc = "done"
    /\ sPc = "next"
    /\ sSub = <<>>
    /\ sEvent = NoEvent
    /\ sTodo = <<>>
    /\ sReg = NoReg
    /\ rq = NoRq
    /\ rk = NoRq
    /\ log = [NoLog EXCEPT !.scenario = "history"]

NextHistory ==
    \/ \E e \in HistoryEras, force \in ForceSet : ErasHistory(e, force)
    \/ SErasHistory

SpecHistory == InitHistory /\ [][NextHistory]_vars

---------------------------------------------------------------------------
(* The read-only endpoints, and two request tasks taking turns *)

\* the locals of a rank request
NoRank ==
    [pc |-> "idle", handler |-> "rank", e |-> 0, w |-> <<>>, i |-> <<>>, n |-> 0, stash |-> 0,
     rank |-> 0, scores |-> <<>>, rstatus |-> "", status |-> 0]

\* respond_json(ValidatorRankResponse { stash, rank, scores, status, .. })
respond_rank(r, rank, scores, rstatus) ==
    [NoRank EXCEPT !.status = 200, !.e = r.e, !.w = r.w, !.i = r.i, !.stash = r.stash,
                   !.rank = rank, !.scores = scores, !.rstatus = rstatus]

\* ZREVRANK key member: the index from the highest score, nil for no member
ZREVRANK(z, m) ==
    IF m \in DOMAIN z THEN (CHOOSE k \in 1..Len(rev_by_score(z)) : rev_by_score(z)[k] = m) - 1 ELSE None

\* get_validator_rank: the match on params.q, then GET era:active
ReqGetValidatorRank(stash, q, w, i) ==
    /\ rq.pc = "idle"
    /\ log.requests < MaxReq
    /\ rq' = IF q # "Board"
             THEN [NoRank EXCEPT !.status = 400, !.w = w, !.i = i, !.stash = stash]
             ELSE IF cache.era_active = None
             THEN [NoRank EXCEPT !.status = 500, !.w = w, !.i = i, !.stash = stash]
             ELSE [NoRank EXCEPT !.pc = "rank_exists", !.e = cache.era_active, !.w = w, !.i = i,
                                 !.stash = stash]
    /\ log' = [log EXCEPT !.requests = @ + 1]
    /\ UNCHANGED <<chain, cache, hPc, sPc, sSub, sEvent, sTodo, sReg, rk>>

\* get_validator_rank: EXISTS key; NotReady when there is no board
ReqRankExists ==
    /\ rq.pc = "rank_exists"
    /\ rq' = IF EXISTS(cache.wboard, BoardAtEra(rq.e, get_board_name(rq.w, rq.i)))
             THEN [rq EXCEPT !.pc = "rank_zrevrank"]
             ELSE respond_rank(rq, 0, <<>>, "NotReady")
    /\ UNCHANGED <<chain, cache, hPc, sPc, sSub, sEvent, sTodo, sReg, log, rk>>

\* get_validator_rank answering with the index ZREVRANK gives, not the rank
ReqRankZrevrankIndex ==
    /\ rq.pc = "rank_zrevrank"
    /\ rq' = IF ZREVRANK(Get(cache.wboard, BoardAtEra(rq.e, get_board_name(rq.w, rq.i)), EmptyFn), rq.stash) = None
             THEN respond_rank(rq, 0, <<>>, "NotFound")
             ELSE [rq EXCEPT !.pc = "rank_hexists",
                     !.rank = ZREVRANK(cache.wboard[BoardAtEra(rq.e, get_board_name(rq.w, rq.i))], rq.stash)]
    /\ UNCHANGED <<chain, cache, hPc, sPc, sSub, sEvent, sTodo, sReg, log, rk>>

\* get_validator_rank returning Err(ApiError::NotFound) for a stash with no rank
ReqRankZrevrankError ==
    /\ rq.pc = "rank_zrevrank"
    /\ rq' = IF ZREVRANK(Get(cache.wboard, BoardAtEra(rq.e, get_board_name(rq.w, rq.i)), EmptyFn), rq.stash) = None
             THEN [NoRank EXCEPT !.status = 404, !.e = rq.e, !.w = rq.w, !.i = rq.i, !.stash = rq.stash]
             ELSE [rq EXCEPT !.pc = "rank_hexists",
                     !.rank = ZREVRANK(cache.wboard[BoardAtEra(rq.e, get_board_name(rq.w, rq.i))], rq.stash) + 1]
    /\ UNCHANGED <<chain, cache, hPc, sPc, sSub, sEvent, sTodo, sReg, log, rk>>

\* get_validator_rank: ZREVRANK key stash; rank += 1, NotFound for no member
ReqRankZrevrank ==
    /\ rq.pc = "rank_zrevrank"
    /\ rq' = IF ZREVRANK(Get(cache.wboard, BoardAtEra(rq.e, get_board_name(rq.w, rq.i)), EmptyFn), rq.stash) = None
             THEN respond_rank(rq, 0, <<>>, "NotFound")
             ELSE [rq EXCEPT !.pc = "rank_hexists",
                     !.rank = ZREVRANK(cache.wboard[BoardAtEra(rq.e, get_board_name(rq.w, rq.i))], rq.stash) + 1]
    /\ UNCHANGED <<chain, cache, hPc, sPc, sSub, sEvent, sTodo, sReg, log, rk>>

\* get_validator_rank: HEXISTS key:scores stash; NotReady when there is none
ReqRankHexists ==
    /\ rq.pc = "rank_hexists"
    /\ rq' = IF rq.stash \in DOMAIN Get(cache.wscores, BoardAtEra(rq.e, get_board_name(rq.w, rq.i)), EmptyFn)
             THEN [rq EXCEPT !.pc = "rank_hget"]
             ELSE respond_rank(rq, 0, <<>>, "NotReady")
    /\ UNCHANGED <<chain, cache, hPc, sPc, sSub, sEvent, sTodo, sReg, log, rk>>

\* get_validator_rank: HGET key:scores stash, and the response
ReqRankHget ==
    /\ rq.pc = "rank_hget"
    /\ rq' = IF rq.stash \in DOMAIN Get(cache.wscores, BoardAtEra(rq.e, get_board_name(rq.w, rq.i)), EmptyFn)
             THEN respond_rank(rq, rq.rank,
                     cache.wscores[BoardAtEra(rq.e, get_board_name(rq.w, rq.i))][rq.stash], "Ok")
             ELSE [NoRank EXCEPT !.status = 404, !.e = rq.e, !.w = rq.w, !.i = rq.i, !.stash = rq.stash]
    /\ UNCHANGED <<chain, cache, hPc, sPc, sSub, sEvent, sTodo, sReg, log, rk>>

\* parse::<u32>().unwrap_or_default() of a number as the cache holds it
parse_u32(x) == IF ~IsNaN(x) /\ x[2] = 1 /\ x[1] >= 0 THEN x[1] ELSE 0

\* impl From<EraCache> for EraResponse
era_response(data) ==
    [era_index |-> Get(data, "era_index", 0),
     total_reward |-> Get(data, "total_reward", 0),
     total_stake |-> Get(data, "total_stake", 0),
     total_reward_points |-> Get(data, "total_reward_points", 0),
     min_reward_points |-> Get(data, "min_reward_points", 0),
     max_reward_points |-> Get(data, "max_reward_points", 0),
     avg_reward_points |-> parse_u32(Get(data, "avg_reward_points", F(0)))]

\* get_era: HGETALL {era}:era, with era_index inserted before the fields are counted
era_fields(c, e) == ("era_index" :> e) @@ Get(c.era, e, EmptyFn)

\* get_era
ReqGetEra(e) ==
    /\ rq.pc = "idle"
    /\ log.requests < MaxReq
    /\ rq' = IF Cardinality(DOMAIN era_fields(cache, e)) = 0
             THEN [pc |-> "idle", handler |-> "era", e |-> e, status |-> 404, era |-> EmptyFn]
             ELSE [pc |-> "idle", handler |-> "era", e |-> e, status |-> 200,
                   era |-> era_response(era_fields(cache, e))]
    /\ log' = [log EXCEPT !.requests = @ + 1]
    /\ UNCHANGED <<chain, cache, hPc, sPc, sSub, sEvent, sTodo, sReg, rk>>

\* the executor gives the turn to the other request task
Switch ==
    /\ rq # rk
    /\ rq' = rk
    /\ rk' = rq
    /\ UNCHANGED <<chain, cache, hPc, sPc, sSub, sEvent, sTodo, sReg, log>>

\* a synced cache with the summary of the era before the active one
ApiCache ==
    [FilterCache EXCEPT !.era = (S3Era - 1) :>
        [total_reward |-> 1002, total_stake |-> 210, total_reward_points |-> 45,
         min_reward_points |-> 20, max_reward_points |-> 25, avg_reward_points |-> Rat(45, 2),
         median_reward_points |-> 25, synced_at |-> "now"]]

InitApi ==
    /\ chain = paid(ChainC, 1)
    /\ cache \in {ApiCache, status(ApiCache, "Started")}
    /\ hPc = "done"
    /\ sPc = "next"
    /\ sSub = <<>>
    /\ sEvent = NoEvent
    /\ sTodo = <<>>
    /\ sReg = NoReg
    /\ rq = NoRq
    /\ rk = NoRq
    /\ log = [NoLog EXCEPT !.scenario = "api"]

\* the board queries: n=0, n below and n above the size of the board
ApiParams == {<<W5, <<>>, 0>>, <<W5, IWide, 1>>, <<W5, IWide, 5>>}

\* the stashes of the rank requests: two members, a blocked validator, no validator
RankStashes == {1, 2, 3, 4}

ApiEras == {S3Era - 1, S3Era + 1}

NextApi ==
    \/ ReqStep(ApiParams)
    \/ \E s \in RankStashes, q \in {"Board", "Other"} : ReqGetValidatorRank(s, q, W5, IWide)
    \/ ReqRankExists
    \/ ReqRankZrevrank
    \/ ReqRankHexists
    \/ ReqRankHget
    \/ \E e \in ApiEras : ReqGetEra(e)
    \/ Switch

SpecApi == InitApi /\ [][NextApi]_vars

---------------------------------------------------------------------------
(* Two board queries for the same weights on a synced cache that holds no  *)
(* board of these weights yet                                              *)

InitRace ==
    /\ chain = paid(ChainC, 1)
    /\ cache = FilterCache
    /\ hPc = "done"
    /\ sPc = "next"
    /\ sSub = <<>>
    /\ sEvent = NoEvent
    /\ sTodo = <<>>
    /\ sReg = NoReg
    /\ rq = NoRq
    /\ rk = NoRq
    /\ log = [NoLog EXCEPT !.scenario = "race"]

\* the queries: the weights alone, and the weights with intervals
RaceParams == {<<W5, <<>>, 3>>, <<W5, IWide, 3>>}

NextRace ==
    \/ ReqStep(RaceParams)
    \/ Switch

SpecRace == InitRace /\ [][NextRace]_vars

---------------------------------------------------------------------------
(* The top-N query over the boards a generation may leave *)

\* the total scores of the members of a board
TopScores == {F(0), Rat(1, 2), F(1)}

\* the boards of the query: any members, any scores, ties included
TopBoards == UNION {[S -> TopScores] : S \in SUBSET FilterStashes}

\* the values of the parameter n, up to one more than the largest board
TopQuantities == 0..(Cardinality(FilterStashes) + 1)

\* a board query at its last await, get_validators_stashes still to run
InitTop ==
    /\ chain = paid(ChainC, 1)
    /\ \E z \in TopBoards :
          cache = [ApiCache EXCEPT !.wboard = BoardAtEra(ApiCache.era_active, get_board_name(W5, IWide)) :> z]
    /\ hPc = "done"
    /\ sPc = "next"
    /\ sSub = <<>>
    /\ sEvent = NoEvent
    /\ sTodo = <<>>
    /\ sReg = NoReg
    /\ \E n \in TopQuantities :
          rq = [NoRq EXCEPT !.pc = "stashes", !.e = ApiCache.era_active, !.w = W5, !.i = IWide, !.n = n]
    /\ rk = NoRq
    /\ log = [NoLog EXCEPT !.scenario = "top"]

SpecTop == InitTop /\ [][ReqStashes]_vars

---------------------------------------------------------------------------
(* The Indexer tasks together with the requests of every endpoint *)

\* H has completed, S has resynced on the first event and awaits the next
InitOwners ==
    /\ chain = paid(ChainC, 1)
    /\ cache = status(network(synced(ChainC)), "Finished")
    /\ hPc = "done"
    /\ sPc = "next"
    /\ sSub = <<>>
    /\ sEvent = [id |-> 1, era |-> ChainC.activeEra]
    /\ sTodo = <<>>
    /\ sReg = NoReg
    /\ rq = NoRq
    /\ rk = NoRq
    /\ log = [NoLog EXCEPT !.events = 1, !.started = {1}, !.finished = {1}, !.scenario = "owners"]

NextOwners ==
    \/ NextBoard
    \/ ReqGetValidatorRank(1, "Board", WMix, IWide)
    \/ ReqRankExists
    \/ ReqRankZrevrank
    \/ ReqRankHexists
    \/ ReqRankHget
    \/ ReqGetEra(ChainC.activeEra)

SpecOwners == InitOwners /\ [][NextOwners]_vars

\* the Indexer under the scheduling the executor gives it: a task that can
\* take a step eventually takes it.  Nothing obliges the node to pay an era
\* or a command to fail.
Fairness ==
    /\ WF_vars(HStatusStarted)
    /\ WF_vars(HNetwork)
    /\ WF_vars(HStatusFinished)
    /\ WF_vars(SSubscribe)
    /\ WF_vars(SNext)
    /\ WF_vars(SIsSyncing)
    /\ WF_vars(SStatus)
    /\ WF_vars(SActiveEra)
    /\ WF_vars(SErasHistory)
    /\ WF_vars(SValidators)
    /\ WF_vars(SActiveValidators)
    /\ WF_vars(SNominators)

SpecFair == Init /\ [][Next]_vars /\ Fairness

---------------------------------------------------------------------------
(* The Indexer of one node, under the same scheduling *)

InitOnce ==
    /\ chain = ChainA
    /\ cache = EmptyCache
    /\ hPc = "start"
    /\ sPc = "idle"
    /\ sSub = <<>>
    /\ sEvent = NoEvent
    /\ sTodo = <<>>
    /\ sReg = NoReg
    /\ rq = NoRq
    /\ rk = NoRq
    /\ log = NoLog

SpecOnce == InitOnce /\ [][Next]_vars /\ Fairness

---------------------------------------------------------------------------
(* The Indexer of a node whose nominators keep a target that left *)

\* the first stash validates and is in the session; the last stash neither
\* validates nor is in the session, and every nominator still targets it
ChainGone ==
    [ChainA EXCEPT !.validators = Stashes \ {NStash},
                   !.targets = [n \in Nominators |-> Stashes]]

InitGone ==
    /\ chain = ChainGone
    /\ cache = EmptyCache
    /\ hPc = "start"
    /\ sPc = "idle"
    /\ sSub = <<>>
    /\ sEvent = NoEvent
    /\ sTodo = <<>>
    /\ sReg = NoReg
    /\ rq = NoRq
    /\ rk = NoRq
    /\ log = NoLog

SpecGone == InitGone /\ [][Next]_vars

---------------------------------------------------------------------------
(* The Indexer of a node that keeps no history *)

\* the first node with Staking.HistoryDepth = 0
ChainNoDepth == [ChainA EXCEPT !.historyDepth = 0]

InitNoDepth ==
    /\ chain = ChainNoDepth
    /\ cache = EmptyCache
    /\ hPc = "start"
    /\ sPc = "idle"
    /\ sSub = <<>>
    /\ sEvent = NoEvent
    /\ sTodo = <<>>
    /\ sReg = NoReg
    /\ rq = NoRq
    /\ rk = NoRq
    /\ log = [NoLog EXCEPT !.scenario = "nodepth"]

SpecNoDepth == InitNoDepth /\ [][Next]_vars

---------------------------------------------------------------------------
(* Sync::get_identity, one invocation of the function at a step *)

\* the accounts of the identity pallet
IdAccounts == 1..(NStash + 1)

\* the sub name super_of gives for an account
SubNameOf(a) == 10 + a

\* every IdentityOf and SuperOf relation over the accounts
IdChains ==
    {[ChainA EXCEPT !.identity = I, !.super = f,
                    !.judgements = [a \in IdAccounts |-> 1], !.subs = [a \in IdAccounts |-> 0]] :
        I \in SUBSET IdAccounts,
        f \in UNION {[D -> {<<p, SubNameOf(p)>> : p \in IdAccounts}] : D \in SUBSET IdAccounts}}

\* the frame of the running invocation: its arguments, the number of
\* invocations made from within get_identity, and the value once returned
IdFrame(s, sub_account_name, hops) ==
    [active_era_index |-> 0, history_depth |-> 0, nominators_stake |-> 0, total_stake |-> 0,
     id_stash |-> s, id_sub |-> sub_account_name, id_hops |-> hops,
     id_returned |-> FALSE, id_result |-> identity_none]

\* Sync::validators calls self.get_identity(&stash, None)
InitIdentity ==
    /\ chain \in IdChains
    /\ cache = EmptyCache
    /\ hPc = "done"
    /\ sPc = "resync"
    /\ sSub = <<>>
    /\ sEvent = [id |-> 1, era |-> ChainA.activeEra]
    /\ sTodo = <<>>
    /\ \E s \in IdAccounts : sReg = IdFrame(s, None, 0)
    /\ rq = NoRq
    /\ rk = NoRq
    /\ log = [NoLog EXCEPT !.scenario = "identity"]

\* get_identity: identity_of(stash) is Some, the identity data is returned
IdentityFound ==
    /\ "id_stash" \in DOMAIN sReg /\ ~sReg.id_returned
    /\ sReg.id_stash \in chain.identity
    /\ sReg' = [sReg EXCEPT !.id_returned = TRUE,
                            !.id_result = identity_data(chain, sReg.id_stash, sReg.id_sub)]
    /\ UNCHANGED <<chain, cache, hPc, sPc, sSub, sEvent, sTodo, rq, log, rk>>

\* get_identity: identity_of(stash) is None and super_of(stash) is Some:
\* return self.get_identity(&parent_account, Some(sub_account_name))
IdentityOfParent ==
    /\ "id_stash" \in DOMAIN sReg /\ ~sReg.id_returned
    /\ sReg.id_stash \notin chain.identity
    /\ sReg.id_stash \in DOMAIN chain.super
    /\ sReg.id_hops < MaxHops
    /\ sReg' = [sReg EXCEPT !.id_stash = chain.super[sReg.id_stash][1],
                            !.id_sub = chain.super[sReg.id_stash][2],
                            !.id_hops = @ + 1]
    /\ UNCHANGED <<chain, cache, hPc, sPc, sSub, sEvent, sTodo, rq, log, rk>>

\* get_identity: neither identity_of nor super_of: the empty identity
IdentityNone ==
    /\ "id_stash" \in DOMAIN sReg /\ ~sReg.id_returned
    /\ sReg.id_stash \notin chain.identity
    /\ sReg.id_stash \notin DOMAIN chain.super
    /\ sReg' = [sReg EXCEPT !.id_returned = TRUE, !.id_result = identity_none]
    /\ UNCHANGED <<chain, cache, hPc, sPc, sSub, sEvent, sTodo, rq, log, rk>>

NextIdentity ==
    \/ IdentityFound
    \/ IdentityOfParent
    \/ IdentityNone

SpecIdentity == InitIdentity /\ [][NextIdentity]_vars

---------------------------------------------------------------------------
(* The subscription task while the stakes on the node change: a validator  *)
(* may unbond all its stake and the nominators may drop a target at any    *)
(* time.                                                                   *)

\* the node accepts the unbonding of the whole active stake of the first stash
Unbond ==
    /\ chain.ledger[1] # 0
    /\ chain' = [chain EXCEPT !.ledger[1] = 0]
    /\ UNCHANGED <<cache, hPc, sPc, sSub, sEvent, sTodo, sReg, rq, log, rk>>

\* the node accepts nominate(targets) of every nominator without the last stash
DropTarget ==
    /\ \E n \in DOMAIN chain.targets : NStash \in chain.targets[n]
    /\ chain' = [chain EXCEPT !.targets = [n \in DOMAIN chain.targets |-> chain.targets[n] \ {NStash}]]
    /\ UNCHANGED <<cache, hPc, sPc, sSub, sEvent, sTodo, sReg, rq, log, rk>>

InitStale ==
    /\ chain = paid(ChainC, 1)
    /\ cache = status(network(synced(ChainC)), "Finished")
    /\ hPc = "done"
    /\ sPc = "next"
    /\ sSub = <<>>
    /\ sEvent = [id |-> 1, era |-> ChainC.activeEra]
    /\ sTodo = <<>>
    /\ sReg = NoReg
    /\ rq = NoRq
    /\ rk = NoRq
    /\ log = [NoLog EXCEPT !.events = 1, !.started = {1}, !.finished = {1}, !.scenario = "stale"]

NextStale ==
    \/ Unbond
    \/ DropTarget
    \/ EraPaid
    \/ SSubscribe
    \/ SNext
    \/ SIsSyncing
    \/ SStatus
    \/ SActiveEra
    \/ SErasHistory
    \/ SValidators
    \/ SActiveValidators
    \/ SNominators
    \/ SFail

SpecStale == InitStale /\ [][NextStale]_vars

---------------------------------------------------------------------------
(* calculate_scores applied to one Validator record under one BoardLimits *)
(* and one weights vector                                                  *)

\* cache_board_limits: the BoardLimitsCache read from the boards of cache c
cache_board_limits(c) ==
    [key \in {"min_" \o LimitBoards[j][2] : j \in 1..Len(LimitBoards)}
                \cup {"max_" \o LimitBoards[j][2] : j \in 1..Len(LimitBoards)} |->
        LET j == CHOOSE j \in 1..Len(LimitBoards) :
                    key \in {"min_" \o LimitBoards[j][2], "max_" \o LimitBoards[j][2]}
        IN  IF key = "min_" \o LimitBoards[j][2]
            THEN calculate_min_limit(c, LimitBoards[j][1])
            ELSE calculate_max_limit(c, LimitBoards[j][1])]

\* the synced cache of a network whose only validator is the second stash
OneValidatorCache ==
    [FilterCache EXCEPT
        !.val = [s \in {2} |-> FilterValidator(s)],
        !.board = [k \in DOMAIN FilterCache.board |->
                      [s \in DOMAIN FilterCache.board[k] \cap {2} |-> FilterCache.board[k][s]]]]

ScoreValidators == {FilterValidator(s) : s \in FilterStashes} \cup {S3Validator(s) : s \in S3Stashes}

\* limits taken from the intervals of a query and limits derived from a cache
ScoreLimits ==
    {limits_of_intervals(i) : i \in FilterIntervals \cup {<<>>}}
        \cup {limits_of_cache(cache_board_limits(c)) : c \in {FilterCache, OneValidatorCache, S3Cache}}

ScoreWeights == {W5, WMix, [k \in 1..WEIGHTS_CAPACITY |-> 0], [k \in 1..WEIGHTS_CAPACITY |-> 9]}

ScoreFrame(validator, limits, weights) ==
    [active_era_index |-> 0, history_depth |-> 0, nominators_stake |-> 0, total_stake |-> 0,
     sc_validator |-> validator, sc_limits |-> limits, sc_weights |-> weights,
     sc_done |-> FALSE, sc_scores |-> <<>>]

InitScores ==
    /\ chain = ChainA
    /\ cache = EmptyCache
    /\ hPc = "done"
    /\ sPc = "next"
    /\ sSub = <<>>
    /\ sEvent = NoEvent
    /\ sTodo = <<>>
    /\ \E v \in ScoreValidators, l \in ScoreLimits, w \in ScoreWeights : sReg = ScoreFrame(v, l, w)
    /\ rq = NoRq
    /\ rk = NoRq
    /\ log = [NoLog EXCEPT !.scenario = "scores"]

CalculateScores ==
    /\ "sc_done" \in DOMAIN sReg /\ ~sReg.sc_done
    /\ sReg' = [sReg EXCEPT !.sc_done = TRUE,
                            !.sc_scores = calculate_scores(sReg.sc_validator, sReg.sc_limits, sReg.sc_weights)]
    /\ UNCHANGED <<chain, cache, hPc, sPc, sSub, sEvent, sTodo, rq, log, rk>>

SpecScores == InitScores /\ [][CalculateScores]_vars

---------------------------------------------------------------------------
(* The lower bound of the history window on a node of any active era and  *)
(* any history depth                                                       *)

MaxDepth == 9

\* the active era and the history depth the pass has read, and the lower
\* bound once computed: its halves, or the panic of a subtraction that
\* overflows in a build that checks
WindowFrame(active_era_index, history_depth) ==
    [active_era_index |-> active_era_index, history_depth |-> history_depth,
     nominators_stake |-> 0, total_stake |-> 0,
     w_done |-> FALSE, w_min |-> u32_sub(0, 0), w_panic |-> FALSE, w_range |-> {}]

InitWindow ==
    /\ chain = ChainA
    /\ cache = EmptyCache
    /\ hPc = "done"
    /\ sPc = "resync"
    /\ sSub = <<>>
    /\ sEvent = [id |-> 1, era |-> ChainA.activeEra]
    /\ sTodo = <<>>
    /\ \E a \in 0..MaxDepth, h \in 0..MaxDepth : sReg = WindowFrame(a, h)
    /\ rq = NoRq
    /\ rk = NoRq
    /\ log = [NoLog EXCEPT !.scenario = "window"]

\* active_era_index - history_depth in a build without overflow checks, or
\* with active_era_index >= history_depth; w_range is start_index..active_era_index
WindowMin ==
    /\ "w_done" \in DOMAIN sReg /\ ~sReg.w_done
    /\ sReg' = [sReg EXCEPT
            !.w_done = TRUE,
            !.w_min = u32_sub(sReg.active_era_index, sReg.history_depth),
            !.w_range = IF u32_sub(sReg.active_era_index, sReg.history_depth).overflow THEN {}
                        ELSE window_min(sReg.active_era_index, sReg.history_depth)
                                ..(sReg.active_era_index - 1)]
    /\ UNCHANGED <<chain, cache, hPc, sPc, sSub, sEvent, sTodo, rq, log, rk>>

\* active_era_index - history_depth in a build with overflow checks: the
\* subtraction panics and the pass is aborted
WindowMinPanics ==
    /\ "w_done" \in DOMAIN sReg /\ ~sReg.w_done
    /\ u32_sub(sReg.active_era_index, sReg.history_depth).overflow
    /\ sReg' = [sReg EXCEPT !.w_done = TRUE, !.w_panic = TRUE]
    /\ UNCHANGED <<chain, cache, hPc, sPc, sSub, sEvent, sTodo, rq, log, rk>>

NextWindow ==
    \/ WindowMin
    \/ WindowMinPanics

SpecWindow == InitWindow /\ [][NextWindow]_vars

---------------------------------------------------------------------------
(* sync/stats.rs, one function of the kernel applied to one list *)

MaxLen == 3

KernelValues == 0..3

\* the lists up to MaxLen, the list of the tests, and a list whose sum is 2^32
KernelLists ==
    UNION {[1..n -> KernelValues] : n \in 0..MaxLen}
        \cup {<<1, 2, 3, 4, 5, 4, 2, 6>>, <<2147483647, 2147483647, 2>>}

\* the caller's list (k_arg as it was passed, k_list as the call leaves it),
\* the function applied to it, and what it returned: a u32, an
\* f64, or the panic of an addition that overflows in a build that checks
KernelFrame(list) ==
    [active_era_index |-> 0, history_depth |-> 0, nominators_stake |-> 0, total_stake |-> 0,
     k_list |-> list, k_arg |-> list, k_fn |-> "none", k_u32 |-> 0, k_f64 |-> F(0), k_panic |-> FALSE]

InitKernel ==
    /\ chain = ChainA
    /\ cache = EmptyCache
    /\ hPc = "done"
    /\ sPc = "resync"
    /\ sSub = <<>>
    /\ sEvent = [id |-> 1, era |-> ChainA.activeEra]
    /\ sTodo = <<>>
    /\ \E list \in KernelLists : sReg = KernelFrame(list)
    /\ rq = NoRq
    /\ rk = NoRq
    /\ log = [NoLog EXCEPT !.scenario = "kernel"]

KernelReturns(fn, u, f) ==
    /\ "k_list" \in DOMAIN sReg /\ sReg.k_fn = "none"
    /\ sReg' = [sReg EXCEPT !.k_fn = fn, !.k_u32 = u, !.k_f64 = f]
    /\ UNCHANGED <<chain, cache, hPc, sPc, sSub, sEvent, sTodo, rq, log, rk>>

KernelMin == KernelReturns("min", min(sReg.k_list), F(0))

KernelMax == KernelReturns("max", max(sReg.k_list), F(0))

\* median(&mut list): list.sort() leaves the caller's list sorted
KernelMedian ==
    /\ "k_list" \in DOMAIN sReg /\ sReg.k_fn = "none"
    /\ sReg' = [sReg EXCEPT !.k_fn = "median", !.k_u32 = median(sReg.k_list),
                            !.k_list = SortU32(sReg.k_list)]
    /\ UNCHANGED <<chain, cache, hPc, sPc, sSub, sEvent, sTodo, rq, log, rk>>

\* mean in a build without overflow checks, or with a sum that fits
KernelMean == KernelReturns("mean", 0, mean(sReg.k_list))

\* mean in a build with overflow checks: the sum panics
KernelMeanPanics ==
    /\ "k_list" \in DOMAIN sReg /\ sReg.k_fn = "none"
    /\ sum_u32(sReg.k_list).overflow
    /\ sReg' = [sReg EXCEPT !.k_fn = "mean", !.k_panic = TRUE]
    /\ UNCHANGED <<chain, cache, hPc, sPc, sSub, sEvent, sTodo, rq, log, rk>>

NextKernel ==
    \/ KernelMin
    \/ KernelMax
    \/ KernelMedian
    \/ KernelMean
    \/ KernelMeanPanics

SpecKernel == InitKernel /\ [][NextKernel]_vars

---------------------------------------------------------------------------
(* Properties *)

\* whether x is an element of the sequence s
InSeq(x, s) == \E k \in 1..Len(s) : s[k] = x

\* C1: in every reachable state in which H or S is between its
\* status(Started) write and its status(Finished) write, Info.syncing is true.
C1_SyncingWhileTaskInProgress == (HInSync \/ SInResync) => is_syncing(cache)

\* C2: a request task performs no ZADD into a leaderboard and no HSET into
\* its ":scores" or ":limits" sibling in a state where Info.syncing is true.
C2_NoBoardWriteWhileSyncing == log.syncing_writes = {}

\* C3: on every fair run each state with Info.syncing = true is eventually
\* followed by a state with Info.syncing = false, also when a command of the
\* resync fails and the supervisor restarts the subscriber.
C3_SyncingEventuallyCleared == is_syncing(cache) ~> ~is_syncing(cache)

\* C4: after a step of a resync has failed and the subscriber was restarted,
\* the next EraPaid event that arrives is not skipped.
C4_RetryOnNextEvent == log.retry \notin log.skipped

\* C5: when H has completed on a cache that S has not written, every era in
\* [active_era - history_depth, active_era) has synced_at set, the
\* validators and nominators passes have stamped Info, and Info.syncing is false.
C5_HistoryBackfilled ==
    (hPc = "done" /\ log.started = {}) =>
        /\ \A e \in window_min(chain.activeEra, chain.historyDepth)..(chain.activeEra - 1) :
                "synced_at" \in DOMAIN Get(cache.era, e, EmptyFn)
        /\ "validators" \in DOMAIN cache.info
        /\ "nominators" \in DOMAIN cache.info
        /\ ~is_syncing(cache)

\* the functions of a resync in the order of the claim
ResyncOrder ==
    <<"status", "active_era", "eras_history", "validators", "active_validators", "nominators", "status">>

\* C6: in every resync the passes run strictly in the order validators,
\* active_validators, nominators, status(Finished): a pass begins only after
\* the pass before it has completed.
C6_StepsInOrder ==
    /\ Len(log.begun) <= Len(ResyncOrder)
    /\ \A k \in 1..Len(log.begun) : log.begun[k] = ResyncOrder[k]
    /\ Len(log.done) <= Len(log.begun)
    /\ Len(log.begun) <= Len(log.done) + 1
    /\ \A k \in 1..Len(log.done) : log.done[k] = log.begun[k]

\* S is inside the nominators pass of a resync
C6_InNominatorsPass == sPc = "resync" /\ Head(sTodo).op = "nom_hset_stake" /\ InSeq("validators", log.done)

\* C7 as stated: an event that arrives while Info.syncing is true, or while
\* S is still executing the resync of an earlier event, is never processed.
C7_ArrivedWhileSyncingNeverProcessed == (log.arrived_syncing \cup log.arrived_busy) \cap log.started = {}

\* C7, amended: an event on which S's is_syncing read returned true is
\* skipped for good: no resync is ever started for it.
C7_SkippedNeverProcessed == log.skipped \cap log.started = {}

\* an event that arrived while Info.syncing was true has been skipped, and
\* another event has been processed
C7_SkippedAnEvent == (log.skipped \cap log.arrived_syncing) # {} /\ log.started # {}

\* C8: after a validators pass followed by a completed nominators pass, for
\* every stash the validators pass wrote, nominators is the number of bonded
\* nominators targeting it, nominators_stake the sum of their active stakes,
\* and when that sum is not zero the score of the stash in the board of
\* total stakes is own_stake + nominators_stake.
C8_NominatorAggregation ==
    InSeq("nominators", log.done) =>
        \A s \in {x \in chain.validators : bonded(chain, x) # None} :
            /\ validator_of(cache.val[s]).nominators = Cardinality(exposed(chain, s))
            /\ validator_of(cache.val[s]).nominators_stake = SumStake(chain, exposed(chain, s))
            /\ SumStake(chain, exposed(chain, s)) # 0 =>
                /\ s \in DOMAIN Get(cache.board, BoardAtEra(0, BOARD_TOTAL_STAKE_VALIDATORS), EmptyFn)
                /\ cache.board[BoardAtEra(0, BOARD_TOTAL_STAKE_VALIDATORS)][s]
                    = validator_of(cache.val[s]).own_stake + validator_of(cache.val[s]).nominators_stake

\* the nominators pass has completed and a stash has two bonded nominators
C8_TwoNominators ==
    /\ InSeq("nominators", log.done)
    /\ \E s \in chain.validators :
            /\ validator_of(cache.val[s]).nominators = 2
            /\ validator_of(cache.val[s]).nominators_stake > 0

\* section 4.6 of the specification: norm, rnorm and flag
norm(v, lo, hi) ==
    IF v = F(0) \/ RLt(v, lo) THEN F(0)
    ELSE IF RLt(hi, v) THEN F(1)
    ELSE RDiv(RSub(v, lo), RSub(hi, lo))

rnorm(v, lo, hi) == RSub(F(1), norm(v, lo, hi))

flag(b) == IF b THEN F(1) ELSE F(0)

\* section 4.6: s_i = direction_i(value_i, limits_i) * w_i for the criteria 0..9
sub_scores(w, l, v) ==
    <<RMul(norm(v.inclusion_rate, l.inclusion_rate.min, l.inclusion_rate.max), F(w[1])),
      RMul(rnorm(RDiv(F(v.commission), F(COMMISSION_PLANCK)),
                 RDiv(l.commission.min, F(COMMISSION_PLANCK)),
                 RDiv(l.commission.max, F(COMMISSION_PLANCK))), F(w[2])),
      RMul(rnorm(F(v.nominators), l.nominators.min, l.nominators.max), F(w[3])),
      RMul(norm(v.avg_reward_points, l.avg_reward_points.min, l.avg_reward_points.max), F(w[4])),
      RMul(flag(v.reward_staked), F(w[5])),
      RMul(flag(v.active), F(w[6])),
      RMul(norm(F(v.own_stake), l.own_stake.min, l.own_stake.max), F(w[7])),
      RMul(rnorm(F(v.own_stake + v.nominators_stake), l.total_stake.min, l.total_stake.max), F(w[8])),
      RMul(norm(F(v.judgements), l.judgements.min, l.judgements.max), F(w[9])),
      RMul(rnorm(F(v.sub_accounts), l.sub_accounts.min, l.sub_accounts.max), F(w[10]))>>

\* the limits of the board key k = <<era, <<w, i>>>>: the intervals, or the
\* limits cached for the weights
board_limits(c, k) ==
    IF k[2][2] = <<>>
    THEN limits_of_cache(Get(c.wlimits, BoardAtEra(k[1], get_board_name(k[2][1], <<>>)), EmptyFn))
    ELSE limits_of_intervals(k[2][2])

\* every member of every leaderboard is scored by its Validator record as it
\* is now, and by the sub-scores stored for it, if any are
ScoresMatchValidators ==
    \A k \in DOMAIN cache.wboard : \A s \in DOMAIN cache.wboard[k] :
        /\ cache.wboard[k][s] = RSumSeq(sub_scores(k[2][1], board_limits(cache, k),
                                            validator_of(Get(cache.val, s, EmptyFn))))
        /\ s \in DOMAIN Get(cache.wscores, k, EmptyFn) =>
                cache.wboard[k][s] = RSumSeq(cache.wscores[k][s])

\* every member of every leaderboard has its sub-scores stored, but for the
\* member whose score the request in flight has just written
ScoresStored ==
    \A k \in DOMAIN cache.wboard : \A s \in DOMAIN cache.wboard[k] :
        \/ s \in DOMAIN Get(cache.wscores, k, EmptyFn)
        \/ rq.pc \in {"gbs_hset", "gbf_hset"} /\ s = Head(rq.stashes)

\* C9 as stated: in every reachable state every member's score is the sum
\* of s_i over its Validator record, and the sum of its stored sub-scores.
C9_ScoreIsSumOfSubScores == ScoresMatchValidators

\* C9, amended: as long as no resync has started since the boards were
\* generated, every member's score is the sum of s_i over its Validator
\* record and the sum of its stored sub-scores, which are stored by the
\* command after the one that writes the score.
C9_ScoreIsSumUntilResync == (log.started = {1}) => (ScoresMatchValidators /\ ScoresStored)

\* a filtered and an unfiltered board are cached with their sub-scores, no
\* resync has started since, and a score is not zero
C9_BoardsCached ==
    /\ log.started = {1}
    /\ \E k \in DOMAIN cache.wboard : k[2][2] # <<>> /\ DOMAIN cache.wboard[k] = DOMAIN Get(cache.wscores, k, EmptyFn)
    /\ \E k \in DOMAIN cache.wboard : k[2][2] = <<>> /\ \E s \in DOMAIN cache.wboard[k] : RLt(F(0), cache.wboard[k][s])
    /\ rq.status = 200

\* the board of the request of scenario S3
S3Board == Get(cache.wboard, BoardAtEra(S3Era, get_board_name(W5, <<>>)), EmptyFn)

\* the request of scenario S3 has been answered
S3Answered == log.scenario = "S3" /\ rq.pc = "idle" /\ rq.status = 200 /\ rq.w = W5 /\ rq.i = <<>> /\ rq.n = 3

\* C10 as stated: the request of scenario S3 returns stash1, stash2, stash3
\* and their total scores are 10, 5 and 0.
C10_S3Totals10_5_0 ==
    S3Answered => (rq.addresses = <<1, 2, 3>> /\ S3Board = <<F(10), F(5), F(0)>>)

\* C10, amended: the request of scenario S3 returns stash1, stash2, stash3
\* and their total scores are 25, 20 and 15: the three lower-better criteria
\* that are zero (nominators, total stake, sub accounts) score 5 each.
C10_S3Totals25_20_15 ==
    S3Answered => (rq.addresses = <<1, 2, 3>> /\ S3Board = <<F(25), F(20), F(15)>>)

\* the request of scenario S3 has been answered with three addresses
C10_S3Served == S3Answered /\ Len(rq.addresses) = 3

\* the request task is about to write the score or the sub-scores of the
\* validator it read last
ReqScoring == rq.pc \in {"gbs_zadd", "gbs_hset", "gbf_zadd", "gbf_hset"}

\* the members of the scored boards and of their ':scores' hashes
ScoredStashes ==
    UNION {DOMAIN cache.wboard[k] : k \in DOMAIN cache.wboard}
    \cup UNION {DOMAIN cache.wscores[k] : k \in DOMAIN cache.wscores}

\* the stashes of the board of all validators of an era
AllBoard(e) == DOMAIN Get(cache.board, BoardAtEra(e, BOARD_ALL_VALIDATORS), EmptyFn)

\* the stashes of the board of active validators of an era
ActiveBoard(e) == DOMAIN Get(cache.board, BoardAtEra(e, BOARD_ACTIVE_VALIDATORS), EmptyFn)

\* the Validator record of the stash says blocked
IsBlocked(s) == Get(Get(cache.val, s, EmptyFn), "blocked", FALSE) = TRUE

criterion(v, k) ==
    CASE k = 1 -> v.inclusion_rate
      [] k = 2 -> F(v.commission)
      [] k = 3 -> F(v.nominators)
      [] k = 4 -> v.avg_reward_points
      [] k = 5 -> flag(v.reward_staked)
      [] k = 6 -> flag(v.active)
      [] k = 7 -> F(v.own_stake)
      [] k = 8 -> F(v.own_stake + v.nominators_stake)
      [] k = 9 -> F(v.judgements)
      [] k = 10 -> F(v.sub_accounts)

\* the value of a boolean criterion is the one a degenerate interval names
InFlagInterval(v, i, k) == (i[k].min = i[k].max) => criterion(v, k) = i[k].min

\* the value of criterion k lies in [min_k, max_k]
InInterval(v, i, k) ==
    IF k \in {5, 6} THEN InFlagInterval(v, i, k)
    ELSE RLe(i[k].min, criterion(v, k)) /\ RLe(criterion(v, k), i[k].max)

\* the greatest integer not above a non-negative number
Floor(x) == x[1] \div x[2]

\* the value of criterion k passes the comparison made for it: the count of
\* nominators has no upper bound when max is 256 or more, and the stakes are
\* compared with the integer parts of the bounds
InIntervalAsCompared(v, i, k) ==
    CASE k = 3 -> RLe(i[3].min, criterion(v, 3))
                  /\ (RLe(criterion(v, 3), i[3].max) \/ RLe(F(NOMINATORS_OVERSUBSCRIBED_THRESHOLD), i[3].max))
      [] k \in {7, 8} -> RLe(F(Floor(i[k].min)), criterion(v, k)) /\ RLe(criterion(v, k), F(Floor(i[k].max)))
      [] OTHER -> InInterval(v, i, k)

\* the stashes of the board of all validators that are not blocked and whose
\* ten values each lie in their interval
InsideIntervals(e, i) ==
    {s \in AllBoard(e) : ~IsBlocked(s) /\ \A k \in 1..INTERVALS_CAPACITY : InInterval(cache.val[s], i, k)}

\* the same, by the comparisons made
InsideAsCompared(e, i) ==
    {s \in AllBoard(e) : ~IsBlocked(s) /\ \A k \in 1..INTERVALS_CAPACITY : InIntervalAsCompared(cache.val[s], i, k)}

\* the request with intervals has ended with the status
FilterEnded(code) == log.scenario = "filter" /\ rq.pc = "idle" /\ rq.i # <<>> /\ rq.status = code

\* the board the request names
RqBoard == DOMAIN Get(cache.wboard, BoardAtEra(rq.e, get_board_name(rq.w, rq.i)), EmptyFn)

\* C12 as stated: no filtered board has a member that is blocked or has a
\* value outside its interval, and when a request with intervals has been
\* served every stash that is not blocked and has its ten values inside its
\* intervals is a member of the board; a boolean criterion is constrained by
\* a degenerate interval only.
C12_FilteredByIntervals ==
    /\ \A k \in DOMAIN cache.wboard : k[2][2] # <<>> => DOMAIN cache.wboard[k] \subseteq InsideIntervals(k[1], k[2][2])
    /\ (FilterEnded(200) \/ FilterEnded(500)) => RqBoard = InsideIntervals(rq.e, rq.i)

\* C12, amended: the same with the comparisons made (no upper bound on the
\* nominators when max >= 256, stakes against the integer parts of the
\* bounds), for a request that succeeds; a request fails with 500 only when
\* the score of a stash that passes the filter is not a number.
C12_FilteredAsCompared ==
    /\ \A k \in DOMAIN cache.wboard : k[2][2] # <<>> => DOMAIN cache.wboard[k] \subseteq InsideAsCompared(k[1], k[2][2])
    /\ FilterEnded(200) => RqBoard = InsideAsCompared(rq.e, rq.i)
    /\ FilterEnded(500) =>
         \E s \in InsideAsCompared(rq.e, rq.i) :
            IsNaN(RSumSeq(sub_scores(rq.w, limits_of_intervals(rq.i), cache.val[s])))

\* a request whose intervals ask for reward_staked = 1 has been served: the
\* first stash is on its board, the second, not blocked, is not
C12_FilterApplied ==
    /\ FilterEnded(200)
    /\ rq.i = WithInterval(5, F(1), F(1))
    /\ RqBoard = {1}
    /\ ~IsBlocked(2)

\* the keys of the cached unfiltered boards
UnfilteredBoards == {k \in DOMAIN cache.wboard : k[2][2] = <<>>}

\* the request task is between the ZADD of the first member of the board and
\* the HSET of its sub-scores
FirstScoreUnstored(k) ==
    /\ rq.pc = "gbs_hset"
    /\ BoardAtEra(rq.e, get_board_name(rq.w, <<>>)) = k
    /\ DOMAIN cache.wboard[k] = {Head(rq.stashes)}

\* every ':limits' and ':scores' key is a sibling of a board named by ten
\* weights, and so of neither "all:val" nor "active:val"
SiblingsOfWeights ==
    \A k \in DOMAIN cache.wlimits \cup DOMAIN cache.wscores :
        Len(k[2][1]) = WEIGHTS_CAPACITY /\ k[2] = get_board_name(k[2][1], k[2][2])

\* C13 as stated: in every reachable state, if Board(era, "w0,...,w9")
\* exists then its ':limits' and ':scores' siblings exist, and no ':limits'
\* or ':scores' key exists for the raw boards 'all' and 'active'.
C13_SiblingsExist ==
    /\ \A k \in UnfilteredBoards : k \in DOMAIN cache.wlimits /\ k \in DOMAIN cache.wscores
    /\ SiblingsOfWeights

\* C13, amended: if Board(era, "w0,...,w9") exists then its ':limits'
\* sibling exists, and its ':scores' sibling exists unless the generation is
\* between the ZADD of the board's first member and the HSET of that
\* member's sub-scores; no ':limits' or ':scores' key exists for the raw
\* boards 'all' and 'active'.
C13_SiblingsExistOnceStored ==
    /\ \A k \in UnfilteredBoards :
          k \in DOMAIN cache.wlimits /\ (k \in DOMAIN cache.wscores \/ FirstScoreUnstored(k))
    /\ SiblingsOfWeights

\* an unfiltered board is cached with its two siblings, beside the raw
\* boards 'all' and 'active' of its era
C13_UnfilteredBoardCached ==
    \E k \in UnfilteredBoards :
        /\ k \in DOMAIN cache.wlimits
        /\ DOMAIN Get(cache.wscores, k, EmptyFn) = DOMAIN cache.wboard[k]
        /\ AllBoard(k[1]) # {}
        /\ ActiveBoard(k[1]) # {}
        /\ rq.pc = "idle"

\* a resync has completed and none is under way
ResyncCompleted == log.finished # {} /\ log.finished = log.started /\ sPc = "next"

\* C14: in every state reached after a completed resync, every member of
\* the active board of an era is a member of the all board of that era.
C14_ActiveSubsetOfAll == ResyncCompleted => \A e \in EraSet : ActiveBoard(e) \subseteq AllBoard(e)

\* the Validator record of the stash says active
IsActive(s) == Get(cache.val[s], "active", FALSE) = TRUE

\* C15: after every completed resync, for every stash with a Validator
\* record, the record's active field is true exactly when the stash is a
\* member of the active board of the era stored under era:active.
C15_ActiveFieldMatchesBoard ==
    ResyncCompleted => \A s \in DOMAIN cache.val : IsActive(s) <=> s \in ActiveBoard(cache.era_active)

\* the pairs <<era, stash>> with a ValidatorAtEra record of an era whose
\* sync has completed
SyncedValidatorsAtEra == {k \in DOMAIN cache.vae : "synced_at" \in DOMAIN Get(cache.era, k[1], EmptyFn)}

\* ActiveErasByValidator(stash) has the member "{era}:{points}" of the
\* record, scored by the era
InActiveEras(k) == <<k[1], cache.vae[k].reward_points>> \in Get(cache.aebv, k[2], {})

\* the board of points of the era has the stash, scored by its points
InPointsBoard(k) ==
    /\ k[2] \in DOMAIN Get(cache.board, BoardAtEra(k[1], BOARD_POINTS_VALIDATORS), EmptyFn)
    /\ cache.board[BoardAtEra(k[1], BOARD_POINTS_VALIDATORS)][k[2]] = cache.vae[k].reward_points

\* C16 as stated: for every stash and era such that ValidatorAtEra(era, stash)
\* exists after the era sync has completed, the stash is a member of
\* Board(era, "all") and ActiveErasByValidator(stash) contains the member
\* "{era}:{points}" scored by that era.
C16_RecordedInAllAndActiveEras ==
    \A k \in SyncedValidatorsAtEra : k[2] \in AllBoard(k[1]) /\ InActiveEras(k)

\* C16, amended: for every such stash and era ActiveErasByValidator(stash)
\* contains the member "{era}:{points}" scored by that era, and the stash is
\* a member of Board(era, "points:val") scored by its points.
C16_RecordedInPointsAndActiveEras ==
    \A k \in SyncedValidatorsAtEra : InPointsBoard(k) /\ InActiveEras(k)

\* the sync of an era has completed with the record of a stash that earned
\* points in it, and the era has no board of all validators
C16_EraSyncedWithoutAllBoard ==
    \E k \in SyncedValidatorsAtEra : cache.vae[k].reward_points > 0 /\ AllBoard(k[1]) = {}

\* the eras whose sync has completed
SyncedEras == {e \in DOMAIN cache.era : "synced_at" \in DOMAIN cache.era[e]}

\* the ValidatorAtEra records of an era
RecordsAtEra(e) == {k \in DOMAIN cache.vae : k[1] = e}

\* the sum of the reward_points of a set of ValidatorAtEra records
RECURSIVE SumPoints(_)
SumPoints(K) ==
    IF K = {} THEN 0
    ELSE LET k == CHOOSE x \in K : TRUE
         IN  cache.vae[k].reward_points + SumPoints(K \ {k})

ActiveErasIn(s, lo, hi) == {m \in Get(cache.aebv, s, {}) : lo <= m[1] /\ m[1] < hi}

NominatorsOf(s) == {n \in DOMAIN chain.targets : s \in chain.targets[n]}

\* C19: for every stash with a Validator record, in every state reached by
\* any sequence of resyncs, Validator(stash).nominators is at most the
\* number of nominator accounts on chain whose targets contain the stash.
C19_NominatorsAtMostOnChain ==
    \A s \in DOMAIN cache.val : Get(cache.val[s], "nominators", 0) <= Cardinality(NominatorsOf(s))

\* the era has the results of the three fetches and the stamp
EraComplete(c, e) ==
    {"total_reward", "total_stake", "total_reward_points", "synced_at"} \subseteq DOMAIN Get(c.era, e, EmptyFn)

\* a call of eras_history has returned
HistoryReturned == log.scenario = "history" /\ sPc = "next" /\ sEvent # NoEvent

\* a call without force for an era that has its stamp issues no command and
\* leaves the cache as it is; any other call issues the three fetches and,
\* last, the stamp
HistoryCallAsClaimed(e, force) ==
    IF force # "Some(true)" /\ "synced_at" \in DOMAIN Get(cache.era, e, EmptyFn)
    THEN sTodo' = <<>> /\ sPc' = "next" /\ cache' = cache
    ELSE /\ {"eras_validator_reward", "eras_total_stake", "eras_reward_points"}
                \subseteq {sTodo'[k].op : k \in DOMAIN sTodo'}
         /\ sTodo'[Len(sTodo')].op = "synced_at"
         /\ \A k \in DOMAIN sTodo' : sTodo'[k].a = e

\* C20: eras_history(e, force=false) after a successful
\* eras_history(e, force=true) is a no-op: it issues no write, so the cache
\* is unchanged; and when force is true or Era(e).synced_at is absent the
\* three fetches are performed and synced_at is stamped.
C20_NonForcedAfterForcedIsNoOp ==
    /\ [](HistoryReturned => EraComplete(cache, sEvent.era))
    /\ [][\A e \in EraSet, force \in ForceSet : ErasHistory(e, force) => HistoryCallAsClaimed(e, force)]_vars

\* a call without force has returned for an era that the one earlier call
\* had synced, and no second sync has run
C20_NonForcedCallReturned ==
    /\ HistoryReturned
    /\ sEvent.id = 2
    /\ sEvent.force = "None"
    /\ log.done = <<"eras_history">>
    /\ EraComplete(cache, sEvent.era)

\* what the running request asks for
RqKey == <<rq.e, rq.w, rq.i, rq.n>>

\* the running request gives its response
Responds == rq.pc = "stashes" /\ rq'.pc = "idle"

\* C21: a board query for a (w, i) already served, with no Indexer write in
\* between, returns the same address list, and every member score of the
\* board and every entry of its ':scores' hash is as it was.
C21_SecondQuerySameRanking ==
    [][(Responds /\ RqKey \in DOMAIN log.served) =>
          /\ rq'.addresses = log.served[RqKey].addresses
          /\ cache.wboard[BoardAtEra(rq.e, get_board_name(rq.w, rq.i))] = log.served[RqKey].board
          /\ cache.wscores[BoardAtEra(rq.e, get_board_name(rq.w, rq.i))] = log.served[RqKey].scores]_vars

\* two queries for the same filtered board have been served, the second
\* after the first, with two addresses
C21_ServedTwice ==
    /\ log.scenario = "filter"
    /\ rq.pc = "idle" /\ rq.status = 200 /\ rq.i = IWide
    /\ Get(cache.stats, BoardAtEra(rq.e, get_board_name(rq.w, rq.i)), 0) = 2
    /\ Len(rq.addresses) = 2

---------------------------------------------------------------------------
(* Claims on the Stats counters and on the read-only endpoints *)

\* the running request task takes a step of its own
TaskStep == rq' # rq /\ rk' = rk

\* the running board query has passed both generators and counts itself
PassesGeneration == TaskStep /\ rq.pc = "stats"

\* C22: a Stats counter never decreases; the step of a board query that has
\* passed generation adds exactly 1 to the counter of its board key and to no
\* other, also when the board was already cached; every other step, the
\* refusal of a board query included, leaves the counters as they are; this
\* holds however two concurrent requests take turns
C22_StatsCountQueries ==
    [][/\ \A k \in DOMAIN cache.stats : k \in DOMAIN cache'.stats /\ cache'.stats[k] >= cache.stats[k]
       /\ PassesGeneration =>
             cache'.stats = (BoardAtEra(rq.e, get_board_name(rq.w, rq.i))
                 :> (Get(cache.stats, BoardAtEra(rq.e, get_board_name(rq.w, rq.i)), 0) + 1)) @@ cache.stats
       /\ ~PassesGeneration => cache'.stats = cache.stats]_vars

C22_TwoConcurrentQueriesCounted ==
    /\ log.scenario = "api"
    /\ rq.pc = "gbl_exists" /\ rk.pc = "gbl_exists"
    /\ rq.w = rk.w /\ rq.i = rk.i /\ rq.e = rk.e
    /\ Get(cache.stats, BoardAtEra(rq.e, get_board_name(rq.w, rq.i)), 0) = 2

\* the task t holds the response of a board query
BoardAnswered(t) == t.pc = "idle" /\ t.status # 0 /\ "addresses" \in DOMAIN t

\* C23: Scenario S4: while the cache says syncing and holds no scored board,
\* every board query is answered 404 and the cache is left as it was: no
\* board, no ':scores' and no ':limits' key is created and no Stats counter
\* is incremented
C23_RefusedWhileSyncing ==
    (log.scenario = "api" /\ is_syncing(cache)) =>
        /\ cache = status(ApiCache, "Started")
        /\ cache.wboard = EmptyFn /\ cache.wscores = EmptyFn /\ cache.wlimits = EmptyFn
        /\ cache.stats = EmptyFn
        /\ \A t \in {rq, rk} : BoardAnswered(t) => t.status = 404 /\ t.addresses = <<>>

C23_BoardQueryRefused ==
    /\ log.scenario = "api" /\ is_syncing(cache)
    /\ BoardAnswered(rq) /\ rq.status = 404
    /\ BoardAnswered(rk) /\ rk.status = 404

\* the running task is a rank request taking a step of its own
RankStep == TaskStep /\ "stash" \in DOMAIN rq'

\* the board a rank request reads
RankBoard(t) == Get(cache.wboard, BoardAtEra(t.e, get_board_name(t.w, t.i)), EmptyFn)

\* the rank request t has been answered with a ValidatorRankResponse
RankAnswered(t) == t.pc = "idle" /\ "stash" \in DOMAIN t /\ t.status = 200

\* a step of a rank request writes no cache key
RankNeverWrites == RankStep => cache' = cache

\* a rank request that finds no board key answers NotReady, rank 0, no scores
RankNotReadyWithoutBoard ==
    (RankStep /\ rq.pc = "rank_exists" /\ BoardAtEra(rq.e, get_board_name(rq.w, rq.i)) \notin DOMAIN cache.wboard) =>
        rq' = respond_rank(rq, 0, <<>>, "NotReady")

\* C24 as stated: no step of a rank request writes a cache key; with no board
\* key the answer is NotReady with rank 0 and no scores; and a rank request
\* answered while its stash is ranked in the board returns ZREVRANK + 1
C24_RankedIsAnsweredItsRank ==
    [][/\ RankNeverWrites
       /\ RankNotReadyWithoutBoard
       /\ (RankStep /\ rq.pc # "idle" /\ RankAnswered(rq') /\ rq.stash \in DOMAIN RankBoard(rq)) =>
             rq'.rank = ZREVRANK(RankBoard(rq), rq.stash) + 1]_vars

\* C24: no step of a rank request writes a cache key; with no board key the
\* answer is NotReady with rank 0 and no scores; for a ranked stash the rank
\* read is ZREVRANK + 1, a value in 1..|board| that is 1 only for a highest
\* score, and it is the rank of every answer with status Ok; a ranked stash
\* whose ':scores' field is not stored yet is answered NotReady with rank 0
C24_RankOfAnswersWithStatusOk ==
    [][/\ RankNeverWrites
       /\ RankNotReadyWithoutBoard
       /\ (RankStep /\ rq.pc = "rank_zrevrank" /\ rq.stash \in DOMAIN RankBoard(rq)) =>
             /\ rq'.pc = "rank_hexists"
             /\ rq'.rank = ZREVRANK(RankBoard(rq), rq.stash) + 1
             /\ rq'.rank \in 1..Cardinality(DOMAIN RankBoard(rq))
             /\ rq'.rank = 1 => \A m \in DOMAIN RankBoard(rq) :
                                   RLe(RankBoard(rq)[m], RankBoard(rq)[rq.stash])
       /\ (RankStep /\ rq.pc # "idle" /\ RankAnswered(rq')) =>
             /\ rq'.rstatus = "Ok" => rq.pc = "rank_hget" /\ rq'.rank = rq.rank
             /\ rq'.rstatus # "Ok" => rq'.rank = 0 /\ rq'.scores = <<>>
       /\ (RankStep /\ rq.pc = "rank_hexists"
             /\ rq.stash \notin DOMAIN Get(cache.wscores, BoardAtEra(rq.e, get_board_name(rq.w, rq.i)), EmptyFn)) =>
             rq' = respond_rank(rq, 0, <<>>, "NotReady")]_vars

C24_RankedSecond ==
    /\ RankAnswered(rq) /\ rq.rstatus = "Ok" /\ rq.rank = 2
    /\ Cardinality(DOMAIN RankBoard(rq)) = 2

\* C25: Scenario S5: a rank request with q=board that asks an existing board
\* for the rank of a stash that is no member of it is answered 200 with
\* status NotFound, rank 0 and no scores, not with an error
C25_NoMemberAnsweredNotFound ==
    [][(RankStep /\ rq.pc = "rank_zrevrank"
          /\ BoardAtEra(rq.e, get_board_name(rq.w, rq.i)) \in DOMAIN cache.wboard
          /\ rq.stash \notin DOMAIN RankBoard(rq)) =>
            /\ rq'.pc = "idle" /\ rq'.status = 200
            /\ rq'.rstatus = "NotFound" /\ rq'.rank = 0 /\ rq'.scores = <<>>
            /\ rq'.stash = rq.stash]_vars

C25_BlockedStashNotFound ==
    /\ RankAnswered(rq) /\ rq.rstatus = "NotFound" /\ rq.stash = 3
    /\ Cardinality(DOMAIN RankBoard(rq)) = 2

\* the task t holds the response of an era request
EraAnswered(t) == t.pc = "idle" /\ "era" \in DOMAIN t /\ t.status # 0

\* C26: GET /api/v1/era/{era_index} answers 200 with the summary of the
\* cached era when the cache holds the era, and 404 when it does not, that
\* is when HGETALL of the era key returns no field
C26_UnknownEraIsNotFound ==
    \A t \in {rq, rk} : EraAnswered(t) =>
        /\ t.e \in DOMAIN cache.era => t.status = 200 /\ t.era.total_reward = cache.era[t.e].total_reward
        /\ t.e \notin DOMAIN cache.era => t.status = 404

\* the summary of zeros given for an era the cache does not hold
C26_UnknownEraAnswered ==
    /\ EraAnswered(rq) /\ rq.e \notin DOMAIN cache.era
    /\ rq.status = 200
    /\ rq.era = [era_index |-> rq.e, total_reward |-> 0, total_stake |-> 0, total_reward_points |-> 0,
                 min_reward_points |-> 0, max_reward_points |-> 0, avg_reward_points |-> 0]

\* the board the board query t asks and the number of its members
AskedBoard(t) == Get(cache.wboard, BoardAtEra(t.e, get_board_name(t.w, t.i)), EmptyFn)

\* the smaller of two numbers
Fewer(a, b) == IF a < b THEN a ELSE b

\* C27: Top-N query: over a board whose members all have a score >= 0 the
\* query returns min(n, |board|) distinct members of the board, in descending
\* order of score and none of them scored below a member left out; n = 0
\* gives the empty list and n > |board| gives the whole board
C27_TopNDescending ==
    [][(rq.pc = "stashes" /\ TaskStep /\ \A m \in DOMAIN AskedBoard(rq) : RLe(F(0), AskedBoard(rq)[m])) =>
         LET z == AskedBoard(rq)
             a == rq'.addresses
         IN  /\ rq'.status = 200
             /\ Len(a) = Fewer(rq.n, Cardinality(DOMAIN z))
             /\ \A j \in 1..Len(a) : a[j] \in DOMAIN z
             /\ \A j, k \in 1..Len(a) : j < k => a[j] # a[k] /\ RLe(z[a[k]], z[a[j]])
             /\ \A j \in 1..Len(a) : \A m \in DOMAIN z :
                   (\A k \in 1..Len(a) : a[k] # m) => RLe(z[m], z[a[j]])
             /\ rq.n = 0 => a = <<>>
             /\ rq.n > Cardinality(DOMAIN z) => {a[j] : j \in 1..Len(a)} = DOMAIN z]_vars

C27_TopTwoOfThree ==
    /\ log.scenario = "top"
    /\ BoardAnswered(rq) /\ rq.n = 2 /\ Len(rq.addresses) = 2
    /\ Cardinality(DOMAIN AskedBoard(rq)) = 3
    /\ RLt(AskedBoard(rq)[rq.addresses[2]], AskedBoard(rq)[rq.addresses[1]])

\* a step of a request task, and a step of an Indexer task or of the node
RequestStep == rq' # rq
IndexerStep == rq' = rq

\* the keys the statement gives to the Indexer, and those it gives to the
\* Leaderboard engine
StatedIndexerKeys(c) == <<c.era, c.val, c.vae, c.aebv, c.info, c.network, c.stats>>
StatedEngineKeys(c) == <<c.board, c.wboard, c.wscores, c.wlimits>>

\* the keys the Indexer writes: Era, Validator, ValidatorAtEra,
\* ActiveErasByValidator, Info, Network, era:active and the boards of its own names
IndexerKeys(c) == <<c.era, c.val, c.vae, c.aebv, c.info, c.network, c.era_active, c.board>>

\* the keys the request tasks write: the boards named by get_board_name, their
\* ':scores' and ':limits' siblings, and Stats
EngineKeys(c) == <<c.wboard, c.wscores, c.wlimits, c.stats>>

\* the running task is a rank request or an era request
ReadOnlyStep == RequestStep /\ ("stash" \in DOMAIN rq' \/ "era" \in DOMAIN rq')

\* C28 as stated: a step of an Indexer task leaves every Board key and its
\* siblings as they are, a step of a request task leaves Era, Validator,
\* ValidatorAtEra, ActiveErasByValidator, Info, Network and Stats as they
\* are, and the rank and era endpoints write nothing
C28_OwnersAsStated ==
    [][/\ IndexerStep => StatedEngineKeys(cache') = StatedEngineKeys(cache)
       /\ RequestStep => StatedIndexerKeys(cache') = StatedIndexerKeys(cache)
       /\ ReadOnlyStep => cache' = cache]_vars

\* C28: write ownership is disjoint: only Indexer tasks write Era, Validator,
\* ValidatorAtEra, ActiveErasByValidator, Info, Network, era:active and the
\* boards named by the Indexer; only request tasks write the boards named by
\* get_board_name, their ':scores' and ':limits' siblings and Stats; no key is
\* written by both, and the rank and era endpoints write nothing
C28_OwnersDisjoint ==
    [][/\ IndexerStep => EngineKeys(cache') = EngineKeys(cache)
       /\ RequestStep => IndexerKeys(cache') = IndexerKeys(cache)
       /\ ReadOnlyStep => cache' = cache]_vars

C28_BothHaveWritten ==
    /\ log.scenario = "owners"
    /\ log.events = 2 /\ sPc = "next" /\ cache.era_active = chain.activeEra
    /\ cache.stats # EmptyFn /\ cache.wboard # EmptyFn
    /\ RankAnswered(rq) /\ rq.rstatus = "Ok"

\* a step of task S, and the step in which a run of H fails
StepOfS == <<sPc, sSub, sEvent, sTodo, sReg>>' # <<sPc, sSub, sEvent, sTodo, sReg>>
RunOfHFails == log'.fails = log.fails + 1 /\ ~StepOfS

\* C29: task H runs once: on every fair run, the failures being finitely
\* many, H eventually terminates; once it has returned Ok it never takes a
\* step again, so every later write to the cache is a step of S; and a run
\* of H that fails writes nothing and is started again
C29_HistoryRunsOnce ==
    /\ <>(hPc = "done")
    /\ [][/\ hPc = "done" => hPc' = "done" /\ (cache' # cache => StepOfS)
          /\ RunOfHFails => hPc' = "start" /\ cache' = cache]_vars

C29_RestartedAfterFailure ==
    /\ hPc = "start" /\ log.fails = 1
    /\ is_syncing(cache) /\ log.events = 0 /\ sPc = "idle" /\ ~log.aborted

\* C30: the inclusion rate of a stash with no active era in the window of
\* the cached active era is 0, also for a window of width 0 (history_depth =
\* 0), where the division is 0/0: the rate computed is 0 and the rate the
\* Validator record holds after a resync is 0, never NaN
C30_EmptyWindowGivesZero ==
    cache.era_active # None =>
        \A s \in Stashes :
            ActiveErasIn(s, window_min(cache.era_active, chain.historyDepth), cache.era_active) = {} =>
                /\ calculate_inclusion_rate(cache, s,
                       window_min(cache.era_active, chain.historyDepth), cache.era_active) = F(0)
                /\ (s \in DOMAIN cache.val /\ "inclusion_rate" \in DOMAIN cache.val[s]) =>
                       ~IsNaN(cache.val[s].inclusion_rate)

---------------------------------------------------------------------------
(* Claims on limits, the nominators pass, identities and the kernel *)

\* the scores of the board of the answered query t are those that the bounds
\* L give for the Validator records
ScoredWith(t, L) ==
    \A m \in DOMAIN AskedBoard(t) :
        AskedBoard(t)[m] = total_score(calculate_scores(validator_of(Get(cache.val, m, EmptyFn)), L, t.w))

\* C31: for the board of every answered query the hash at
\* Board(era, "{name}:limits") exists and holds the bounds the scores of
\* Board(era, name) were computed with, and the limits of the response are
\* the bounds used for the board whose addresses the response returns
C31_LimitsAreBoundsUsed ==
    (BoardAnswered(rq) /\ rq.status = 200) =>
        /\ BoardAtEra(rq.e, get_board_name(rq.w, rq.i)) \in DOMAIN cache.wlimits
        /\ ScoredWith(rq, limits_of_cache(Get(cache.wlimits, BoardAtEra(rq.e, get_board_name(rq.w, rq.i)), EmptyFn)))
        /\ ScoredWith(rq, rq.limits)

\* S has read nominators_stake of a target and has not yet written it back
InStakeUpdate == sPc = "resync" /\ sTodo # <<>> /\ Head(sTodo).op = "nom_hset_stake"

\* the field nominators_stake of the Validator record of a stash in cache c
StakeField(c, s) == Get(Get(c.val, s, EmptyFn), "nominators_stake", 0)

\* the fields the validators and nominators passes read, modify and write
PassFields(c) ==
    [s \in DOMAIN c.val |-> <<Get(c.val[s], "nominators", 0), Get(c.val[s], "nominators_stake", 0)>>]

\* C32: single writer of the nominators pass: every step that changes the
\* nominators or nominators_stake field of a Validator record is a step of
\* S in its validators, active_validators or nominators pass; between the
\* HGET and the HSET of nominators_stake no step changes the field, so the
\* value S holds is the field as it is plus the stake of the nominator, and
\* the HSET adds that stake to the field exactly once; under every
\* interleaving of H, S and their restarts
C32_SingleWriterOfNominatorsStake ==
    [][/\ PassFields(cache') # PassFields(cache) =>
             /\ StepOfS /\ sPc = "resync"
             /\ Head(sTodo).fn \in {"validators", "active_validators", "nominators"}
       /\ InStakeUpdate =>
             /\ sReg.nominators_stake = StakeField(cache, Head(sTodo).b)
                    + get_controller_stake(chain, bonded(chain, Head(sTodo).a))
             /\ StakeField(cache', Head(sTodo).b) # StakeField(cache, Head(sTodo).b) =>
                    /\ StepOfS
                    /\ StakeField(cache', Head(sTodo).b) = StakeField(cache, Head(sTodo).b)
                           + get_controller_stake(chain, bonded(chain, Head(sTodo).a))]_vars

C32_UpdateWhileHistoryRuns ==
    /\ InStakeUpdate /\ hPc = "network" /\ log.fails = 1
    /\ StakeField(cache, Head(sTodo).b) > 0

\* C33: identity resolution follows at most one hop: get_identity calls
\* itself at most once for one stash, and only for a stash with no identity
\* and a super account, whatever the identity_of and super_of relations
\* are, a parent with no identity and a super account of its own included
C33_AtMostOneHop ==
    "id_stash" \in DOMAIN sReg => sReg.id_hops <= 1

\* S issues a command of its nominators pass
NominatorsStep ==
    /\ sPc = "resync" /\ sTodo # <<>> /\ Head(sTodo).fn = "nominators"
    /\ sTodo' # sTodo /\ log'.fails = log.fails

\* the commands of a sequence that write for the target t
WritesFor(todo, t) ==
    {i \in 1..Len(todo) : /\ todo[i].op \in {"nom_hincrby", "nom_hset_stake", "nom_zadd"}
                          /\ todo[i].b = t}

\* C34: the nominators pass never creates a Validator record: no step of
\* the pass changes the set of Validator keys, and at the EXISTS of a
\* target with no Validator key the pass writes nothing and drops the
\* HINCRBY, the HSET and the ZADD of that (nominator, target) pair
C34_NominatorsCreateNoRecord ==
    [][NominatorsStep =>
          /\ DOMAIN cache'.val = DOMAIN cache.val
          /\ (Head(sTodo).op = "nom_exists" /\ ~EXISTS(cache.val, Head(sTodo).b)) =>
                /\ cache' = cache
                /\ Cardinality(WritesFor(sTodo', Head(sTodo).b))
                     = Cardinality(WritesFor(sTodo, Head(sTodo).b)) - 3]_vars

\* a nominators pass has completed on a node with a bonded nominator whose
\* target has no Validator record
C34_TargetSkipped ==
    /\ log.done # <<>> /\ log.done[Len(log.done)] = "nominators"
    /\ \E n \in DOMAIN chain.targets : \E t \in chain.targets[n] :
          bonded(chain, n) # None /\ ~EXISTS(cache.val, t)

\* the sum of a list of u32 as the integer it is, in units of 2^16
ExactSum(list) ==
    [hi |-> SumSeq([i \in 1..Len(list) |-> list[i] \div 65536])
              + (SumSeq([i \in 1..Len(list) |-> list[i] % 65536]) \div 65536),
     lo |-> SumSeq([i \in 1..Len(list) |-> list[i] % 65536]) % 65536]

\* f is sum / length of the list; a sum of 2^31 or more is compared by the
\* integer part alone
IsMeanOf(list, f) ==
    IF ExactSum(list).hi < 32768
    THEN REq(f, Rat(u32_value(ExactSum(list)), Len(list)))
    ELSE ~IsNaN(f) /\ f[1] \div f[2] >= 2147483647 \div Len(list)

\* v is the element at index floor(length / 2) of the list in ascending order
IsMedianOf(list, v) ==
    /\ InSeq(v, list)
    /\ Cardinality({i \in 1..Len(list) : list[i] < v}) <= Len(list) \div 2
    /\ Cardinality({i \in 1..Len(list) : list[i] <= v}) > Len(list) \div 2

\* C35: the statistics kernel on lists of u32: of a non-empty list min and
\* max return the least and the greatest element, mean returns sum / length
\* and median the element at index floor(length / 2) of the sorted list;
\* each of the four returns 0 for the empty list
C35_KernelAsStated ==
    ("k_list" \in DOMAIN sReg /\ sReg.k_fn # "none") =>
        /\ ~sReg.k_panic
        /\ sReg.k_arg = <<>> => sReg.k_u32 = 0 /\ sReg.k_f64 = F(0)
        /\ (sReg.k_arg # <<>> /\ sReg.k_fn = "min") =>
              InSeq(sReg.k_u32, sReg.k_arg) /\ \A i \in 1..Len(sReg.k_arg) : sReg.k_u32 <= sReg.k_arg[i]
        /\ (sReg.k_arg # <<>> /\ sReg.k_fn = "max") =>
              InSeq(sReg.k_u32, sReg.k_arg) /\ \A i \in 1..Len(sReg.k_arg) : sReg.k_u32 >= sReg.k_arg[i]
        /\ (sReg.k_arg # <<>> /\ sReg.k_fn = "median") => IsMedianOf(sReg.k_arg, sReg.k_u32)
        /\ (sReg.k_arg # <<>> /\ sReg.k_fn = "mean") => IsMeanOf(sReg.k_arg, sReg.k_f64)

\* the median of the list of the tests is its upper middle
C35_MedianOfTests ==
    /\ "k_list" \in DOMAIN sReg /\ sReg.k_arg = <<1, 2, 3, 4, 5, 4, 2, 6>>
    /\ sReg.k_fn = "median" /\ sReg.k_u32 = 4

\* the request is about to read its top-N and has skipped the generation of
\* the board of its weights, which it found existing
ReadsAfterSkip == rq.pc = "stashes" /\ rq.status = 0 /\ rq.lim = EmptyFn

\* the members of the board of all validators of era e that are not blocked
NonBlockedMembers(c, e) ==
    {s \in DOMAIN Get(c.board, BoardAtEra(e, BOARD_ALL_VALIDATORS), EmptyFn) :
        ~validator_of(Get(c.val, s, EmptyFn)).blocked}

\* C36: no board query returns a ranking read from a partially generated
\* board: a request for weights alone that found the board of its weights
\* existing, and so skipped the generation, reads its top-N from a board
\* that holds every non-blocked member of the board of all validators
C36_NoPartialBoardRead ==
    (ReadsAfterSkip /\ rq.i = <<>>) =>
        NonBlockedMembers(cache, rq.e)
            \subseteq DOMAIN Get(cache.wboard, BoardAtEra(rq.e, get_board_name(rq.w, rq.i)), EmptyFn)

\* the fields of an Era record that the three fetch steps write
FetchedFields ==
    {"total_reward", "total_stake", "total_reward_points", "min_reward_points",
     "max_reward_points", "avg_reward_points", "median_reward_points"}

\* C37: Era records are complete once stamped: in every reachable state,
\* the states after an era sync aborted by a failed command included, an
\* Era record with the field synced_at has total_reward, total_stake,
\* total_reward_points and the min, max, avg and median reward points
C37_StampedErasAreComplete ==
    \A e \in DOMAIN cache.era :
        "synced_at" \in DOMAIN cache.era[e] => FetchedFields \subseteq DOMAIN cache.era[e]

\* an era sync was aborted after its first fetch and its record is left
\* without a stamp
C37_AbortedSyncLeftUnstamped ==
    /\ log.fails >= 1 /\ sPc = "idle"
    /\ \E e \in DOMAIN cache.era :
          /\ "total_reward" \in DOMAIN cache.era[e]
          /\ "total_reward_points" \notin DOMAIN cache.era[e]
          /\ "synced_at" \notin DOMAIN cache.era[e]

\* C38: the lower bound of the history window never underflows: for every
\* active era and history depth, active_era < history_depth included, the
\* value of active_era - history_depth computed in u32 is in
\* [0, active_era], with no wrap-around and no abort of the pass
C38_WindowMinInRange ==
    ("w_done" \in DOMAIN sReg /\ sReg.w_done) =>
        /\ ~sReg.w_panic
        /\ sReg.w_min.hi < 32768
        /\ u32_value(sReg.w_min) <= sReg.active_era_index

\* C39: sub-scores are bounded: for every Validator record, every limits
\* record, derived or taken from the intervals of a query, and every weights
\* vector with w_i in [0,9], each of the ten sub-scores of calculate_scores
\* is in [0, w_i] and the total is in [0, sum of w_i]; normalize_value
\* divides by zero for no input, min = max = value # 0 included
C39_SubScoresBounded ==
    ("sc_done" \in DOMAIN sReg /\ sReg.sc_done) =>
        /\ \A k \in 1..WEIGHTS_CAPACITY :
              /\ RLe(F(0), sReg.sc_scores[k])
              /\ RLe(sReg.sc_scores[k], F(sReg.sc_weights[k]))
        /\ RLe(F(0), total_score(sReg.sc_scores))
        /\ RLe(total_score(sReg.sc_scores), F(SumSeq(sReg.sc_weights)))


\* the score of a member of a statistical board of validators
StatScore(name, s) == Get(cache.board, <<0, name>>, EmptyFn)[s]

\* C40: the statistical boards carry no stale scores: after every completed
\* resync the score of every member of the board of own stakes is the
\* own_stake of its Validator record, and the score of every member of the
\* board of total stakes is own_stake + nominators_stake of its record,
\* also for a validator whose own stake dropped to zero or that lost all
\* its nominators since the resync before
C40_NoStaleStakeScores ==
    ResyncCompleted =>
        /\ \A s \in DOMAIN Get(cache.board, <<0, BOARD_OWN_STAKE_VALIDATORS>>, EmptyFn) :
              StatScore(BOARD_OWN_STAKE_VALIDATORS, s) = Get(Get(cache.val, s, EmptyFn), "own_stake", 0)
        /\ \A s \in DOMAIN Get(cache.board, <<0, BOARD_TOTAL_STAKE_VALIDATORS>>, EmptyFn) :
              StatScore(BOARD_TOTAL_STAKE_VALIDATORS, s)
                = Get(Get(cache.val, s, EmptyFn), "own_stake", 0)
                    + Get(Get(cache.val, s, EmptyFn), "nominators_stake", 0)

=============================================================================
